---- MODULE Spec2Model ----
(***************************************************************************)
(* A model of the generator-detection compressor of                        *)
(* src/src/ljpw/real_compressor.py: the container (CompressedData), its    *)
(* wire format (to_bytes / from_bytes), the find_... detectors, and the    *)
(* orchestration (SemanticCompressor.compress / decompress).               *)
(*                                                                         *)
(* Representation.  A Python bytes object is a sequence of integers in     *)
(* 0..255; a Python str is a sequence of code points.  A Python value that *)
(* can be stored in a container or travel through JSON is a tagged record  *)
(* [t |-> tag, v |-> payload] (see the J* constructors).  An exception is  *)
(* the value Raise(kind): operators that model code that can raise return  *)
(* either a result or Raise(...), and the callers propagate or catch it as *)
(* the code does.                                                          *)
(***************************************************************************)
EXTENDS Integers, Sequences, FiniteSets, TLC

(***************************************************************************)
(* Bounds of the model (not program constants).                            *)
(***************************************************************************)
\* Longest free-form input blob (every byte string over FreeAlphabet up to
\* this length is an input).
MaxFreeLen == 3

\* Bytes of the free-form inputs: 'A', '1', ',', and 0xFF (never valid UTF-8).
FreeAlphabet == {65, 49, 44, 255}

(***************************************************************************)
(* Generic helpers on sequences.                                           *)
(***************************************************************************)
Min(a, b) == IF a <= b THEN a ELSE b

Max(a, b) == IF a >= b THEN a ELSE b

\* s[lo..hi] as Python slices it: out-of-range bounds are clamped.
Slice(s, lo, hi) == SubSeq(s, Max(lo, 1), Min(hi, Len(s)))

\* bytes * int  (real_compressor.py:130 and :376): p repeated c times.
Repeat(p, c) ==
  IF c <= 0 \/ Len(p) = 0 THEN << >>
  ELSE SubSeq([i \in 1..(Len(p) * c) |-> p[((i - 1) % Len(p)) + 1]], 1, Len(p) * c)

\* F(x) with x evaluated once, whatever the order of evaluation.
Once(F(_), x) == CHOOSE r \in {F(once) : once \in {x}} : TRUE

\* Concatenation of a sequence of sequences.
RECURSIVE FlattenRange(_, _, _)
FlattenRange(ss, lo, hi) ==
  IF lo > hi THEN << >>
  ELSE IF lo = hi THEN ss[lo]
  ELSE Once(LAMBDA mid : FlattenRange(ss, lo, mid) \o FlattenRange(ss, mid + 1, hi),
            (lo + hi) \div 2)

Flatten(ss) == Once(LAMBDA n : FlattenRange(ss, 1, n), Len(ss))

\* All sequences over S of length 0..n.
SeqsUpTo(S, n) == UNION {[1..k -> S] : k \in 0..n}

(***************************************************************************)
(* Exceptions.                                                             *)
(***************************************************************************)
Raise(kind) == [t |-> "raise", v |-> kind]

IsRaise(x) == x.t = "raise"

(***************************************************************************)
(* Python values.                                                          *)
(***************************************************************************)
JNone == [t |-> "none", v |-> 0]

IsNone(x) == x.t = "none"

JInt(n) == [t |-> "int", v |-> n]

\* A float is the rational num/den in lowest terms, den > 0.  Every float
\* the model reaches is a dyadic rational of small magnitude, for which
\* IEEE-754 double arithmetic is exact (see FloatOfRatio).
JFloat(num, den) == [t |-> "float", v |-> <<num, den>>]

JStr(s) == [t |-> "str", v |-> s]

JBytes(b) == [t |-> "bytes", v |-> b]

JBool(b) == [t |-> "bool", v |-> b]

\* A dict is the sequence of its <<key, value>> pairs in insertion order;
\* keys are strings (code point sequences).
JDict(pairs) == [t |-> "dict", v |-> pairs]

JList(items) == [t |-> "list", v |-> items]

HasKey(d, k) == \E i \in 1..Len(d.v) : d.v[i][1] = k

\* d[k] for a key that is present (the last binding wins, as in a dict
\* built by json.loads from an object with a repeated key).
Get(d, k) ==
  LET i == CHOOSE i \in 1..Len(d.v) :
             d.v[i][1] = k /\ \A j \in (i + 1)..Len(d.v) : d.v[j][1] # k
  IN d.v[i][2]

(***************************************************************************)
(* Text: bytes <-> str, str(int), int(str), str.split, bytes.hex.          *)
(***************************************************************************)
\* Characters the model names.
CH_COMMA == 44

CH_PLUS == 43

CH_MINUS == 45

CH_DOT == 46

CH_ZERO == 48

CH_UNDERSCORE == 95

CH_QUOTE == 34

CH_BACKSLASH == 92

IsDigit(c) == c >= 48 /\ c <= 57

\* Python's str.strip() / int() whitespace among the ASCII code points:
\* \t \n \v \f \r, the separators 0x1c..0x1f, and the space.
IsPySpace(c) == (c >= 9 /\ c <= 13) \/ (c >= 28 /\ c <= 32)

\* data.decode('utf-8') (real_compressor.py:331 and :544).  A byte below
\* 0x80 is its own code point.  The only other byte of the model's input
\* alphabets is 0xFF, which no UTF-8 sequence contains, so a blob holding a
\* byte >= 0x80 does not decode.
Utf8Decode(data) ==
  IF \A i \in 1..Len(data) : data[i] < 128 THEN JStr(data)
  ELSE Raise("UnicodeDecodeError")

\* text.encode('utf-8') (real_compressor.py:386 and :525) for code points of
\* the Basic Multilingual Plane.
Utf8EncodeChar(c) ==
  IF c < 128 THEN <<c>>
  ELSE IF c < 2048 THEN <<192 + (c \div 64), 128 + (c % 64)>>
  ELSE <<224 + (c \div 4096), 128 + ((c \div 64) % 64), 128 + (c % 64)>>

Utf8Encode(text) ==
  IF \A i \in 1..Len(text) : text[i] < 128 THEN text
  ELSE Flatten([i \in 1..Len(text) |-> Utf8EncodeChar(text[i])])

\* str(n) for n >= 0.
RECURSIVE NatToStr(_)
NatToStr(n) ==
  IF n < 10 THEN <<48 + n>>
  ELSE Append(NatToStr(n \div 10), 48 + (n % 10))

\* str(n) (real_compressor.py:524, and the integers json.dumps writes).
IntToStr(n) == IF n < 0 THEN <<CH_MINUS>> \o NatToStr(-n) ELSE NatToStr(n)

\* ','.join(parts)
RECURSIVE JoinRange(_, _, _, _)
JoinRange(parts, sep, lo, hi) ==
  IF lo > hi THEN << >>
  ELSE IF lo = hi THEN parts[lo]
  ELSE LET mid == (lo + hi) \div 2
       IN JoinRange(parts, sep, lo, mid) \o sep \o JoinRange(parts, sep, mid + 1, hi)

Join(parts, sep) == JoinRange(parts, sep, 1, Len(parts))

\* text.split(',') (real_compressor.py:545): the pieces between the
\* separators, empty pieces included; always at least one piece.
Split(text, sep) ==
  LET cuts == {i \in 1..Len(text) : text[i] = sep}
      n    == Cardinality(cuts)
      \* position of the k-th separator (0 for k = 0, Len+1 for k = n+1)
      cut(k) == IF k = 0 THEN 0
                ELSE IF k = n + 1 THEN Len(text) + 1
                ELSE CHOOSE i \in cuts : Cardinality({j \in cuts : j < i}) = k - 1
  IN [k \in 1..(n + 1) |-> SubSeq(text, cut(k - 1) + 1, cut(k) - 1)]

\* x.strip()
Strip(x) ==
  LET keep == {i \in 1..Len(x) : ~IsPySpace(x[i])}
  IN IF keep = {} THEN << >>
     ELSE SubSeq(x, CHOOSE i \in keep : \A j \in 1..(i - 1) : IsPySpace(x[j]),
                    CHOOSE i \in keep : \A j \in (i + 1)..Len(x) : IsPySpace(x[j]))

\* The value of a string of digits and underscores (underscores skipped).
RECURSIVE DigitsValue(_, _, _)
DigitsValue(s, i, acc) ==
  IF i > Len(s) THEN acc
  ELSE IF s[i] = CH_UNDERSCORE THEN DigitsValue(s, i + 1, acc)
  ELSE DigitsValue(s, i + 1, 10 * acc + (s[i] - 48))

\* int(s) for a str s without surrounding whitespace, from its body after
\* the sign.
IntOfBody(body, sign) ==
  IF Len(body) = 0 THEN Raise("ValueError")
  ELSE IF \E i \in 1..Len(body) :
            ~(\/ IsDigit(body[i])
              \/ /\ body[i] = CH_UNDERSCORE
                 /\ i > 1 /\ i < Len(body)
                 /\ IsDigit(body[i - 1]) /\ IsDigit(body[i + 1]))
       THEN Raise("ValueError")
  ELSE JInt(sign * DigitsValue(body, 1, 0))

IntOfStripped(s) ==
  IF Len(s) > 0 /\ s[1] = CH_MINUS THEN IntOfBody(Tail(s), -1)
  ELSE IF Len(s) > 0 /\ s[1] = CH_PLUS THEN IntOfBody(Tail(s), 1)
  ELSE IntOfBody(s, 1)

\* int(x) for a str x, base 10 (real_compressor.py:545): surrounding
\* whitespace is ignored, one sign is allowed, the digits may be grouped by
\* single underscores; anything else is a ValueError.
PyInt(x) == IntOfStripped(Strip(x))

HexDigit(d) == IF d < 10 THEN 48 + d ELSE 87 + d

\* bytes.hex() (real_compressor.py:60 and :535): two lower-case digits a byte.
HexEncode(b) ==
  [i \in 1..(2 * Len(b)) |->
     IF i % 2 = 1 THEN HexDigit(b[(i + 1) \div 2] \div 16)
     ELSE HexDigit(b[i \div 2] % 16)]

IsHexChar(c) == IsDigit(c) \/ (c >= 97 /\ c <= 102) \/ (c >= 65 /\ c <= 70)

HexValue(c) == IF IsDigit(c) THEN c - 48 ELSE IF c >= 97 THEN c - 87 ELSE c - 55

\* ASCII whitespace as bytes.fromhex skips it.
IsAsciiSpace(c) == c = 32 \/ (c >= 9 /\ c <= 13)

\* bytes.fromhex(s) (real_compressor.py:86 and :389): pairs of hex digits of
\* either case, ASCII whitespace allowed between pairs; anything else is a
\* ValueError.
RECURSIVE FromHexAt(_, _, _)
FromHexAt(s, i, acc) ==
  IF i > Len(s) THEN JBytes(acc)
  ELSE IF IsAsciiSpace(s[i]) THEN FromHexAt(s, i + 1, acc)
  ELSE IF i + 1 <= Len(s) /\ IsHexChar(s[i]) /\ IsHexChar(s[i + 1])
       THEN FromHexAt(s, i + 2, Append(acc, 16 * HexValue(s[i]) + HexValue(s[i + 1])))
  ELSE Raise("ValueError")

\* A string without whitespace is decoded pair by pair in one step.
HexDecode(s) ==
  IF \E i \in 1..Len(s) : IsAsciiSpace(s[i]) THEN FromHexAt(s, 1, << >>)
  ELSE IF Len(s) % 2 # 0 \/ \E i \in 1..Len(s) : ~IsHexChar(s[i])
       THEN Raise("ValueError")
  ELSE JBytes([i \in 1..(Len(s) \div 2) |->
                 16 * HexValue(s[2 * i - 1]) + HexValue(s[2 * i])])

(***************************************************************************)
(* Pattern detection (real_compressor.py:111-254).  A detector returns its *)
(* seed as a tuple, or JNone.                                              *)
(***************************************************************************)
Found(tuple) == [t |-> "found", v |-> tuple]

\* A recognizer that lets the last repeat be partial: the shortest prefix
\* whose repetition covers data, wherever data ends.
find_repeating_pattern_partial(data) ==
  LET n  == Len(data)
      ok == {L \in 1..(n \div 2) : \A i \in 1..n : data[i] = data[((i - 1) % L) + 1]}
  IN IF ok = {} THEN JNone
     ELSE LET L == CHOOSE L \in ok : \A M \in ok : L <= M
          IN Found(<<SubSeq(data, 1, L), n \div L>>)

\* find_repeating_pattern(data): the shortest prefix whose repetition is
\* data, tried for the lengths 1..n//2 that divide n.
find_repeating_pattern(data) ==
  LET n  == Len(data)
      ok == {L \in 1..(n \div 2) :
               n % L = 0 /\ Repeat(SubSeq(data, 1, L), n \div L) = data}
  IN IF n = 0 \/ ok = {} THEN JNone
     ELSE LET L == CHOOSE L \in ok : \A M \in ok : L <= M
          IN Found(<<SubSeq(data, 1, L), n \div L>>)

\* A detector that looks at the two ends only: the first difference and
\* the last term.
find_arithmetic_sequence_endpoints(numbers) ==
  IF Len(numbers) < 2 THEN JNone
  ELSE IF numbers[1] + (Len(numbers) - 1) * (numbers[2] - numbers[1]) = numbers[Len(numbers)]
       THEN Found(<<numbers[1], numbers[2] - numbers[1], Len(numbers)>>)
       ELSE JNone

\* find_arithmetic_sequence(numbers)
find_arithmetic_sequence(numbers) ==
  IF Len(numbers) < 2 THEN JNone
  ELSE LET start == numbers[1]
           step  == numbers[2] - numbers[1]
           count == Len(numbers)
       IN IF \A i \in 0..(count - 1) : start + i * step = numbers[i + 1]
          THEN Found(<<start, step, count>>)
          ELSE JNone

RECURSIVE Gcd(_, _)
Gcd(a, b) == IF b = 0 THEN a ELSE Gcd(b, a % b)

Abs(a) == IF a < 0 THEN -a ELSE a

\* a / b for integers a and b # 0 (real_compressor.py:170): the float
\* nearest to the quotient, held as the quotient in lowest terms.
FloatOfRatio(a, b) ==
  LET g == Gcd(Abs(a), Abs(b))
      s == IF b < 0 THEN -1 ELSE 1
  IN <<(s * a) \div g, (s * b) \div g>>

\* int(x) for the float x = a / b, b > 0: truncation toward zero.
TruncDiv(a, b) == IF a >= 0 THEN a \div b ELSE -((-a) \div b)

\* Natural numbers beyond the machine word, for the magnitude of
\* start * (ratio ** i): the digits in base BigBase, lowest first.
BigBase == 2 ^ 14

BigOfNat(n) == <<n % BigBase, (n \div BigBase) % BigBase, n \div (BigBase * BigBase)>>

BigDigit(x, k) == IF k >= 1 /\ k <= Len(x) THEN x[k] ELSE 0

\* The digits lo..hi of x * m for 0 <= m < 2^31, given the carry into digit
\* lo: <<digits, carry out>>.
RECURSIVE BigTimesRange(_, _, _, _, _)
BigTimesRange(x, lo, hi, m, carry) ==
  IF lo > hi THEN <<<< >>, carry>>
  ELSE IF lo = hi
       THEN Once(LAMBDA v : << <<v % BigBase>>, v \div BigBase >>,
                 BigDigit(x, lo) * (m % BigBase)
                   + BigDigit(x, lo - 1) * ((m \div BigBase) % BigBase)
                   + BigDigit(x, lo - 2) * (m \div (BigBase * BigBase))
                   + carry)
  ELSE Once(LAMBDA low :
              Once(LAMBDA high : <<low[1] \o high[1], high[2]>>,
                   BigTimesRange(x, ((lo + hi) \div 2) + 1, hi, m, low[2])),
            BigTimesRange(x, lo, (lo + hi) \div 2, m, carry))

\* The number of digits of x up to its highest non-zero digit, looking
\* down from digit k.
RECURSIVE BigTop(_, _)
BigTop(x, k) == IF k = 0 \/ x[k] # 0 THEN k ELSE BigTop(x, k - 1)

\* x without its leading zero digits.
BigTrim(x) == SubSeq(x, 1, BigTop(x, Len(x)))

\* x * m
BigTimes(x, m) ==
  Once(LAMBDA r : BigTrim(Append(r[1], r[2])), BigTimesRange(x, 1, Len(x) + 2, m, 0))

\* x * m^k
RECURSIVE BigTimesPower(_, _, _)
BigTimesPower(x, m, k) ==
  IF k <= 0 THEN x
  ELSE IF k = 1 THEN BigTimes(x, m)
  ELSE Once(LAMBDA half : BigTimesPower(half, m, k - (k \div 2)),
            BigTimesPower(x, m, k \div 2))

\* x >= y for two numbers without leading zeros.
BigTrimmedAtLeast(x, y) ==
  IF Len(x) # Len(y) THEN Len(x) > Len(y)
  ELSE \A k \in 1..Len(x) : x[k] >= y[k] \/ \E j \in (k + 1)..Len(x) : x[j] # y[j]

BigAtLeast(x, y) ==
  Once(LAMBDA tx : Once(LAMBDA ty : BigTrimmedAtLeast(tx, ty), BigTrim(y)), BigTrim(x))

\* 2^e
BigPowerOfTwo(e) ==
  [k \in 1..((e \div 14) + 1) |-> IF k = (e \div 14) + 1 THEN 2 ^ (e % 14) ELSE 0]

\* TRUE iff [int(start * (ratio ** i)) for i in range(count)]
\* (real_compressor.py:174) raises OverflowError: ratio ** i raises it when
\* the power is beyond the largest double, which is just below 2^1024, and
\* int() raises it for the infinity that start * (ratio ** i) is when the
\* product is.  For ratio = p / q the magnitudes grow with i when |p| > q
\* and never exceed |start| otherwise, so the last i decides:
\* |start| * |p|^i >= 2^1024 * q^i.
GeometricOverflows(start, ratio, count) ==
  /\ Abs(ratio[1]) > ratio[2]
  /\ BigAtLeast(BigTimesPower(BigOfNat(Abs(start)), Abs(ratio[1]), count - 1),
                BigTimesPower(BigPowerOfTwo(1024), ratio[2], count - 1))

\* expected == numbers for expected = [int(start * (ratio ** i)) ...]
\* (real_compressor.py:174-175), compared from index i on; pn / pd is
\* ratio ** i.
RECURSIVE GeometricMatches(_, _, _, _, _, _)
GeometricMatches(numbers, start, ratio, i, pn, pd) ==
  IF i >= Len(numbers) THEN TRUE
  ELSE IF TruncDiv(start * pn, pd) # numbers[i + 1] THEN FALSE
  ELSE IF i + 1 >= Len(numbers) THEN TRUE
  ELSE GeometricMatches(numbers, start, ratio, i + 1, pn * ratio[1], pd * ratio[2])

\* find_geometric_sequence(numbers)
find_geometric_sequence(numbers) ==
  IF Len(numbers) < 2 \/ numbers[1] = 0 THEN JNone
  ELSE IF numbers[2] = 0 THEN JNone
  ELSE LET start == numbers[1]
           ratio == FloatOfRatio(numbers[2], numbers[1])
           count == Len(numbers)
       IN IF GeometricOverflows(start, ratio, count) THEN Raise("OverflowError")
          ELSE IF GeometricMatches(numbers, start, ratio, 0, 1, 1)
          THEN Found(<<start, ratio, count>>)
          ELSE JNone

\* seq == numbers for seq = [a, b, a+b, ...] (real_compressor.py:194-198),
\* compared from index i (>= 3) on.
RECURSIVE FibonacciMatches(_, _)
FibonacciMatches(numbers, i) ==
  IF i > Len(numbers) THEN TRUE
  ELSE IF numbers[i] # numbers[i - 1] + numbers[i - 2] THEN FALSE
  ELSE FibonacciMatches(numbers, i + 1)

\* find_fibonacci_like(numbers)
find_fibonacci_like(numbers) ==
  IF Len(numbers) < 3 THEN JNone
  ELSE IF FibonacciMatches(numbers, 3)
       THEN Found(<<numbers[1], numbers[2], Len(numbers)>>)
       ELSE JNone

\* expected == numbers for expected = [base ** i ...]
\* (real_compressor.py:219-220), compared from index i on; p is base ** i.
RECURSIVE PowersMatch(_, _, _, _)
PowersMatch(numbers, base, i, p) ==
  IF i >= Len(numbers) THEN TRUE
  ELSE IF p # numbers[i + 1] THEN FALSE
  ELSE IF i + 1 >= Len(numbers) THEN TRUE
  ELSE PowersMatch(numbers, base, i + 1, p * base)

\* find_powers(numbers)
find_powers(numbers) ==
  IF Len(numbers) < 2 \/ numbers[1] # 1 THEN JNone
  ELSE IF numbers[2] <= 1 THEN JNone
  ELSE IF PowersMatch(numbers, numbers[2], 0, 1)
       THEN Found(<<numbers[2], Len(numbers)>>)
       ELSE JNone

\* A primality test that takes every odd number above 1 for a prime.
is_odd_or_two(n) == n = 2 \/ (n > 2 /\ n % 2 = 1)

\* is_prime(n) (real_compressor.py:232-238): trial division by
\* 2..int(n ** 0.5).
is_prime(n) ==
  IF n < 2 THEN FALSE
  ELSE \A i \in 2..n : i * i > n \/ n % i # 0

\* The primes among lo..hi, in order.
RECURSIVE PrimesIn(_, _)
PrimesIn(lo, hi) ==
  IF lo > hi THEN << >>
  ELSE IF lo = hi THEN (IF is_prime(lo) THEN <<lo>> ELSE << >>)
  ELSE Once(LAMBDA mid : PrimesIn(lo, mid) \o PrimesIn(mid + 1, hi), (lo + hi) \div 2)

\* get_primes(n) (real_compressor.py:240-247): the first n primes, found by
\* testing the candidates 2, 3, ... with is_prime.  The loop is taken n
\* candidates at a time; the primes found beyond the n-th are dropped, as
\* the loop stops at the n-th.
RECURSIVE PrimesFrom(_, _, _)
PrimesFrom(n, candidate, primes) ==
  IF Len(primes) >= n THEN SubSeq(primes, 1, n)
  ELSE Once(LAMBDA found : PrimesFrom(n, candidate + n, found),
            primes \o PrimesIn(candidate, candidate + n - 1))

get_primes(n) == PrimesFrom(n, 2, << >>)

\* find_primes_sequence(numbers)
find_primes_sequence(numbers) ==
  IF get_primes(Len(numbers)) = numbers THEN Found(Len(numbers)) ELSE JNone

(***************************************************************************)
(* L-systems (real_compressor.py:261-296).                                 *)
(***************************************************************************)
\* KNOWN_LSYSTEMS as the module defines it: the systems in the order of the
\* dict, each with its axiom and its rules (a dict of one-character keys).
\*   koch        F      F -> F+F-F-F+F
\*   sierpinski  F-G-G  F -> F-G+F+G-F, G -> GG
\*   dragon      FX     X -> X+YF+,     Y -> -FX-Y
\*   hilbert     A      A -> -BF+AFA+FB-, B -> +AF-BFB-FA+
InitialLSystems ==
  << [name |-> "koch", axiom |-> <<70>>,
      rules |-> JDict(<< <<<<70>>, JStr(<<70, 43, 70, 45, 70, 45, 70, 43, 70>>)>> >>)],
     [name |-> "sierpinski", axiom |-> <<70, 45, 71, 45, 71>>,
      rules |-> JDict(<< <<<<70>>, JStr(<<70, 45, 71, 43, 70, 43, 71, 45, 70>>)>>, <<<<71>>, JStr(<<71, 71>>)>> >>)],
     [name |-> "dragon", axiom |-> <<70, 88>>,
      rules |-> JDict(<< <<<<88>>, JStr(<<88, 43, 89, 70, 43>>)>>, <<<<89>>, JStr(<<45, 70, 88, 45, 89>>)>> >>)],
     [name |-> "hilbert", axiom |-> <<65>>,
      rules |-> JDict(<< <<<<65>>, JStr(<<45, 66, 70, 43, 65, 70, 65, 43, 70, 66, 45>>)>>, <<<<66>>, JStr(<<43, 65, 70, 45, 66, 70, 66, 45, 70, 65, 43>>)>> >>)] >>

\* The number of depths find_lsystem tries: range(1, 15).
LSYSTEM_MAX_ITERATIONS == 14

\* rules.get(char, char): the replacement of one character.
RuleFor(rules, char) ==
  IF HasKey(rules, <<char>>) THEN Get(rules, <<char>>).v ELSE <<char>>

\* One pass of the inner loop of generate_lsystem: every character of
\* result replaced by its rule (or kept).
Rewrite(result, rules) ==
  Flatten([i \in 1..Len(result) |-> RuleFor(rules, result[i])])

\* generate_lsystem(axiom, rules, iterations)
RECURSIVE generate_lsystem(_, _, _)
generate_lsystem(axiom, rules, iterations) ==
  IF iterations <= 0 THEN axiom
  ELSE Once(LAMBDA result : Rewrite(result, rules),
            generate_lsystem(axiom, rules, iterations - 1))

\* The characters an expansion can hold: those of the axiom and of the
\* replacements.
Symbols(axiom, rules) ==
  {axiom[i] : i \in 1..Len(axiom)}
    \cup UNION {{rules.v[k][2].v[i] : i \in 1..Len(rules.v[k][2].v)} : k \in 1..Len(rules.v)}

Occurrences(s, char) == Cardinality({i \in 1..Len(s) : s[i] = char})

RECURSIVE Total(_, _)
Total(f, S) ==
  IF S = {} THEN 0 ELSE LET x == CHOOSE x \in S : TRUE IN f[x] + Total(f, S \ {x})

\* How often each character occurs in generate_lsystem(axiom, rules,
\* iterations): every occurrence of a character becomes its replacement.
RECURSIVE Census(_, _, _)
Census(axiom, rules, iterations) ==
  IF iterations <= 0
  THEN [char \in Symbols(axiom, rules) |-> Occurrences(axiom, char)]
  ELSE Once(LAMBDA before :
              [char \in DOMAIN before |->
                 Total([from \in DOMAIN before |->
                          before[from] * Occurrences(RuleFor(rules, from), char)],
                       DOMAIN before)],
            Census(axiom, rules, iterations - 1))

\* len(generate_lsystem(axiom, rules, iterations))
LSystemLength(axiom, rules, iterations) ==
  Once(LAMBDA census : Total(census, DOMAIN census), Census(axiom, rules, iterations))

\* A search that takes an expansion of the text's length for the text.
RECURSIVE FindInSystemByLength(_, _, _)
FindInSystemByLength(text, lsys, iterations) ==
  IF iterations > LSYSTEM_MAX_ITERATIONS THEN JNone
  ELSE Once(LAMBDA length :
              IF length = Len(text) THEN Found(<<lsys.axiom, lsys.rules, iterations>>)
              ELSE IF length > Len(text) * 2 THEN JNone
              ELSE FindInSystemByLength(text, lsys, iterations + 1),
            LSystemLength(lsys.axiom, lsys.rules, iterations))

\* The inner loop of find_lsystem for one catalog system, from depth
\* `iterations` on: a match returns (axiom, rules, iterations); a generated
\* string longer than twice the text ends the loop for this system.  Two
\* strings of different lengths are unequal, so the string itself is built
\* only at a depth where its length is the text's.
RECURSIVE FindInSystem(_, _, _)
FindInSystem(text, lsys, iterations) ==
  IF iterations > LSYSTEM_MAX_ITERATIONS THEN JNone
  ELSE Once(LAMBDA length :
              IF length = Len(text)
                 /\ generate_lsystem(lsys.axiom, lsys.rules, iterations) = text
              THEN Found(<<lsys.axiom, lsys.rules, iterations>>)
              ELSE IF length > Len(text) * 2 THEN JNone
              ELSE FindInSystem(text, lsys, iterations + 1),
            LSystemLength(lsys.axiom, lsys.rules, iterations))

\* find_lsystem(text), over the catalog `known` from its k-th system on.
RECURSIVE FindFromSystem(_, _, _)
FindFromSystem(text, known, k) ==
  IF k > Len(known) THEN JNone
  ELSE LET r == FindInSystem(text, known[k], 1)
       IN IF ~IsNone(r) THEN r ELSE FindFromSystem(text, known, k + 1)

find_lsystem(text, known) == FindFromSystem(text, known, 1)

(***************************************************************************)
(* json.dumps (real_compressor.py:58-65), with the default separators      *)
(* ", " and ": " and ensure_ascii.                                         *)
(***************************************************************************)
\* "\uXXXX" for a code point below 0x10000.
UnicodeEscape(c) ==
  <<CH_BACKSLASH, 117, HexDigit(c \div 4096), HexDigit((c \div 256) % 16),
    HexDigit((c \div 16) % 16), HexDigit(c % 16)>>

\* One character of a str inside a JSON string.
JsonEscapeChar(c) ==
  IF c = CH_QUOTE THEN <<CH_BACKSLASH, CH_QUOTE>>
  ELSE IF c = CH_BACKSLASH THEN <<CH_BACKSLASH, CH_BACKSLASH>>
  ELSE IF c = 10 THEN <<CH_BACKSLASH, 110>>
  ELSE IF c = 13 THEN <<CH_BACKSLASH, 114>>
  ELSE IF c = 9 THEN <<CH_BACKSLASH, 116>>
  ELSE IF c = 8 THEN <<CH_BACKSLASH, 98>>
  ELSE IF c = 12 THEN <<CH_BACKSLASH, 102>>
  ELSE IF c >= 32 /\ c <= 126 THEN <<c>>
  ELSE UnicodeEscape(c)

JsonString(str) ==
  IF \A i \in 1..Len(str) :
       str[i] >= 32 /\ str[i] <= 126 /\ str[i] # CH_QUOTE /\ str[i] # CH_BACKSLASH
  THEN <<CH_QUOTE>> \o str \o <<CH_QUOTE>>
  ELSE <<CH_QUOTE>> \o Flatten([i \in 1..Len(str) |-> JsonEscapeChar(str[i])])
                    \o <<CH_QUOTE>>

\* The digits of rem/den after the decimal point, for a dyadic den.
RECURSIVE FractionDigits(_, _)
FractionDigits(rem, den) ==
  IF rem = 0 THEN << >>
  ELSE <<48 + ((rem * 10) \div den)>> \o FractionDigits((rem * 10) % den, den)

\* float.__repr__ as json.dumps writes a float: for a dyadic rational x with
\* 1e-4 <= |x| < 1e16 (or x = 0) the shortest representation is its exact
\* decimal expansion, with ".0" for an integral value.
FloatRepr(f) ==
  IF f[2] = 0
  THEN (IF f[1] > 0 THEN <<73, 110, 102, 105, 110, 105, 116, 121>>
        ELSE IF f[1] < 0 THEN <<45, 73, 110, 102, 105, 110, 105, 116, 121>> ELSE <<78, 97, 78>>)
  ELSE LET a    == Abs(f[1])
           frac == FractionDigits(a % f[2], f[2])
       IN (IF f[1] < 0 THEN <<CH_MINUS>> ELSE << >>)
          \o NatToStr(a \div f[2]) \o <<CH_DOT>>
          \o (IF frac = << >> THEN <<CH_ZERO>> ELSE frac)

\* json.dumps(value).  bytes are not JSON serializable (TypeError).
RECURSIVE JsonDumps(_)
JsonDumps(x) ==
  CASE x.t = "int"   -> IntToStr(x.v)
    [] x.t = "float" -> FloatRepr(x.v)
    [] x.t = "str"   -> JsonString(x.v)
    [] x.t = "bool"  -> (IF x.v THEN <<116, 114, 117, 101>> ELSE <<102, 97, 108, 115, 101>>)
    [] x.t = "none"  -> <<110, 117, 108, 108>>
    [] x.t = "dict"  ->
         <<123>>
         \o Join([i \in 1..Len(x.v) |->
                    JsonString(x.v[i][1]) \o <<58, 32>> \o JsonDumps(x.v[i][2])],
                 <<44, 32>>)
         \o <<125>>
    [] x.t = "list"  ->
         <<91>> \o Join([i \in 1..Len(x.v) |-> JsonDumps(x.v[i])], <<44, 32>>) \o <<93>>

\* Whether json.dumps accepts the value (no bytes anywhere in it).
RECURSIVE JsonSerializable(_)
JsonSerializable(x) ==
  CASE x.t = "dict" -> \A i \in 1..Len(x.v) : JsonSerializable(x.v[i][2])
    [] x.t = "list" -> \A i \in 1..Len(x.v) : JsonSerializable(x.v[i])
    [] x.t = "bytes" -> FALSE
    [] OTHER -> TRUE


(***************************************************************************)
(* json.loads (real_compressor.py:82).  A parse result is                  *)
(* [ok, v, i]: whether a value was read, the value, and the index after    *)
(* it.                                                                     *)
(***************************************************************************)
PFail == [ok |-> FALSE, v |-> JNone, i |-> 0]

POk(v, i) == [ok |-> TRUE, v |-> v, i |-> i]

\* s[i], or -1 past either end.
At(s, i) == IF i >= 1 /\ i <= Len(s) THEN s[i] ELSE -1

StartsWith(s, i, lit) ==
  i + Len(lit) - 1 <= Len(s) /\ SubSeq(s, i, i + Len(lit) - 1) = lit

\* JSON whitespace: space, \t, \n, \r.
IsJsonWs(c) == c = 32 \/ c = 9 \/ c = 10 \/ c = 13

RECURSIVE SkipWs(_, _)
SkipWs(s, i) == IF IsJsonWs(At(s, i)) THEN SkipWs(s, i + 1) ELSE i

\* The first index >= i that holds no digit.
RECURSIVE DigitsEnd(_, _)
DigitsEnd(s, i) == IF IsDigit(At(s, i)) THEN DigitsEnd(s, i + 1) ELSE i

RECURSIVE Pow10(_)
Pow10(n) == IF n <= 0 THEN 1 ELSE 10 * Pow10(n - 1)

\* dict[key] = value on the pairs of a dict: a repeated key keeps its place
\* and takes the new value.
DictPut(pairs, key, value) ==
  IF \E i \in 1..Len(pairs) : pairs[i][1] = key
  THEN [i \in 1..Len(pairs) |->
          IF pairs[i][1] = key THEN <<key, value>> ELSE pairs[i]]
  ELSE Append(pairs, <<key, value>>)

\* The first index >= j of s that holds a quote, a backslash or a control
\* character; 0 when there is none.
FirstSpecial(s, j) ==
  IF \A k \in j..Len(s) : ~(s[k] = CH_QUOTE \/ s[k] = CH_BACKSLASH \/ s[k] < 32)
  THEN 0
  ELSE CHOOSE k \in j..Len(s) :
         /\ s[k] = CH_QUOTE \/ s[k] = CH_BACKSLASH \/ s[k] < 32
         /\ \A m \in j..(k - 1) : ~(s[m] = CH_QUOTE \/ s[m] = CH_BACKSLASH \/ s[m] < 32)

\* The character a one-letter escape stands for (\" \\ \/ \b \f \n \r \t),
\* -1 for any other letter.
EscapeValue(e) ==
  IF e = CH_QUOTE \/ e = CH_BACKSLASH \/ e = 47 THEN e
  ELSE IF e = 98 THEN 8
  ELSE IF e = 102 THEN 12
  ELSE IF e = 110 THEN 10
  ELSE IF e = 114 THEN 13
  ELSE IF e = 116 THEN 9
  ELSE -1

\* The body of a JSON string from index j on (the opening quote is read),
\* strict mode: a control character is an error.  A \uXXXX escape gives the
\* code unit itself.  k is the first special character from j on, acc the
\* characters read before j.
RECURSIVE ScanFrom(_, _, _, _)
ScanFrom(s, j, acc, k) ==
  IF k = 0 THEN PFail
  ELSE IF s[k] = CH_QUOTE THEN POk(JStr(acc \o SubSeq(s, j, k - 1)), k + 1)
  ELSE IF s[k] < 32 THEN PFail
  ELSE IF EscapeValue(At(s, k + 1)) >= 0
       THEN ScanFrom(s, k + 2,
                     Append(acc \o SubSeq(s, j, k - 1), EscapeValue(At(s, k + 1))),
                     FirstSpecial(s, k + 2))
  ELSE IF At(s, k + 1) = 117 /\ \A d \in 2..5 : IsHexChar(At(s, k + d))
       THEN ScanFrom(s, k + 6,
                     Append(acc \o SubSeq(s, j, k - 1),
                            4096 * HexValue(s[k + 2]) + 256 * HexValue(s[k + 3])
                            + 16 * HexValue(s[k + 4]) + HexValue(s[k + 5])),
                     FirstSpecial(s, k + 6))
  ELSE PFail

ScanString(s, j) == ScanFrom(s, j, << >>, FirstSpecial(s, j))

\* The value of a JSON number from its parts: the digits of the integer
\* part and of the fraction as one number mant, and the power of ten exp10
\* it is multiplied by; after is the index after the number.
NumberValue(mant, exp10, isFloat, after) ==
  IF ~isFloat THEN POk(JInt(mant), after)
  ELSE IF exp10 >= 0 THEN POk(JFloat(mant * Pow10(exp10), 1), after)
  ELSE POk(JFloat(FloatOfRatio(mant, Pow10(-exp10))[1],
                  FloatOfRatio(mant, Pow10(-exp10))[2]), after)

\* The exponent part of a number ([eE][-+]?\d+), read at index e when it is
\* there.
NumberExponent(s, e, mant, fracLen, isFloat) ==
  IF (At(s, e) = 101 \/ At(s, e) = 69) /\ IsDigit(At(s, e + 1))
  THEN NumberValue(mant, DigitsValue(SubSeq(s, e + 1, DigitsEnd(s, e + 1) - 1), 1, 0) - fracLen,
                   TRUE, DigitsEnd(s, e + 1))
  ELSE IF (At(s, e) = 101 \/ At(s, e) = 69) /\ At(s, e + 1) = CH_PLUS /\ IsDigit(At(s, e + 2))
  THEN NumberValue(mant, DigitsValue(SubSeq(s, e + 2, DigitsEnd(s, e + 2) - 1), 1, 0) - fracLen,
                   TRUE, DigitsEnd(s, e + 2))
  ELSE IF (At(s, e) = 101 \/ At(s, e) = 69) /\ At(s, e + 1) = CH_MINUS /\ IsDigit(At(s, e + 2))
  THEN NumberValue(mant, -DigitsValue(SubSeq(s, e + 2, DigitsEnd(s, e + 2) - 1), 1, 0) - fracLen,
                   TRUE, DigitsEnd(s, e + 2))
  ELSE NumberValue(mant, -fracLen, isFloat, e)

\* The fraction part of a number (\.\d+), read at index p when it is there;
\* j0 is the index of the first digit, sgn the sign.
NumberFraction(s, j0, p, sgn) ==
  IF At(s, p) = CH_DOT /\ IsDigit(At(s, p + 1))
  THEN NumberExponent(s, DigitsEnd(s, p + 1),
         sgn * DigitsValue(SubSeq(s, j0, p - 1) \o SubSeq(s, p + 1, DigitsEnd(s, p + 1) - 1), 1, 0),
         DigitsEnd(s, p + 1) - p - 1, TRUE)
  ELSE NumberExponent(s, p, sgn * DigitsValue(SubSeq(s, j0, p - 1), 1, 0), 0, FALSE)

\* The integer part of a number (0|[1-9]\d*) at index j0.
NumberInteger(s, j0, sgn) ==
  IF ~IsDigit(At(s, j0)) THEN PFail
  ELSE IF At(s, j0) = CH_ZERO THEN NumberFraction(s, j0, j0 + 1, sgn)
  ELSE NumberFraction(s, j0, DigitsEnd(s, j0), sgn)

\* A JSON number at index i: -?(0|[1-9]\d*)(\.\d+)?([eE][-+]?\d+)?; an int
\* without fraction and exponent, a float otherwise.
ParseNumber(s, i) ==
  IF At(s, i) = CH_MINUS THEN NumberInteger(s, i + 1, -1) ELSE NumberInteger(s, i, 1)

RECURSIVE ParseValue(_, _)
RECURSIVE ParseMembers(_, _, _)
RECURSIVE MemberValue(_, _, _)
RECURSIVE NextMember(_, _, _, _)
RECURSIVE ParseItems(_, _, _)
RECURSIVE NextItem(_, _, _)

\* The members of an object from index j on (at a key), pairs read so far.
ParseMembers(s, j, pairs) ==
  IF At(s, j) # CH_QUOTE THEN PFail ELSE MemberValue(s, ScanString(s, j + 1), pairs)

\* After the key of a member: the colon and the value.
MemberValue(s, key, pairs) ==
  IF ~key.ok THEN PFail
  ELSE IF At(s, SkipWs(s, key.i)) # 58 THEN PFail
  ELSE NextMember(s, key.v.v, ParseValue(s, SkipWs(s, SkipWs(s, key.i) + 1)), pairs)

\* After the value of a member: the end of the object or the next member.
NextMember(s, k, val, pairs) ==
  IF ~val.ok THEN PFail
  ELSE IF At(s, SkipWs(s, val.i)) = 125
       THEN POk(JDict(DictPut(pairs, k, val.v)), SkipWs(s, val.i) + 1)
  ELSE IF At(s, SkipWs(s, val.i)) = 44
       THEN ParseMembers(s, SkipWs(s, SkipWs(s, val.i) + 1), DictPut(pairs, k, val.v))
  ELSE PFail

\* The items of an array from index j on (at a value), items read so far.
ParseItems(s, j, items) == NextItem(s, ParseValue(s, j), items)

\* After an item: the end of the array or the next item.
NextItem(s, val, items) ==
  IF ~val.ok THEN PFail
  ELSE IF At(s, SkipWs(s, val.i)) = 93
       THEN POk(JList(Append(items, val.v)), SkipWs(s, val.i) + 1)
  ELSE IF At(s, SkipWs(s, val.i)) = 44
       THEN ParseItems(s, SkipWs(s, SkipWs(s, val.i) + 1), Append(items, val.v))
  ELSE PFail

\* One JSON value at index i (json.scanner.py_make_scanner._scan_once).
ParseValue(s, i) ==
  IF At(s, i) = CH_QUOTE THEN ScanString(s, i + 1)
  ELSE IF At(s, i) = 123
       THEN (IF At(s, SkipWs(s, i + 1)) = 125 THEN POk(JDict(<< >>), SkipWs(s, i + 1) + 1)
             ELSE ParseMembers(s, SkipWs(s, i + 1), << >>))
  ELSE IF At(s, i) = 91
       THEN (IF At(s, SkipWs(s, i + 1)) = 93 THEN POk(JList(<< >>), SkipWs(s, i + 1) + 1)
             ELSE ParseItems(s, SkipWs(s, i + 1), << >>))
  ELSE IF StartsWith(s, i, <<110, 117, 108, 108>>) THEN POk(JNone, i + 4)
  ELSE IF StartsWith(s, i, <<116, 114, 117, 101>>) THEN POk(JBool(TRUE), i + 4)
  ELSE IF StartsWith(s, i, <<102, 97, 108, 115, 101>>) THEN POk(JBool(FALSE), i + 5)
  ELSE IF IsDigit(At(s, i)) \/ (At(s, i) = CH_MINUS /\ IsDigit(At(s, i + 1)))
       THEN ParseNumber(s, i)
  ELSE IF StartsWith(s, i, <<78, 97, 78>>) THEN POk(JFloat(0, 0), i + 3)
  ELSE IF StartsWith(s, i, <<73, 110, 102, 105, 110, 105, 116, 121>>) THEN POk(JFloat(1, 0), i + 8)
  ELSE IF StartsWith(s, i, <<45, 73, 110, 102, 105, 110, 105, 116, 121>>) THEN POk(JFloat(-1, 0), i + 9)
  ELSE PFail

\* The value json.loads returns for the parse result r of the whole text.
LoadsResult(text, r) ==
  IF r.ok /\ SkipWs(text, r.i) = Len(text) + 1 THEN r.v
  ELSE Raise("JSONDecodeError")

\* json.loads(text): one value, whitespace around it, nothing else.
JsonLoads(text) == LoadsResult(text, ParseValue(text, SkipWs(text, 1)))


(***************************************************************************)
(* The libraries the compressor calls: hashlib.sha256 and zlib.            *)
(***************************************************************************)
\* The multipliers of the stand-in digest, one per 16-bit word.
DigestMultipliers == <<31, 37, 41, 43, 47, 53, 59, 61>>

\* The stand-in digest of the bytes lo..hi for one multiplier m, as
\* <<m ^ (hi - lo + 1), sum of (data[i] + 1) * m ^ (hi - i)>> modulo 46337,
\* computed by halving the range.
RECURSIVE DigestRange(_, _, _, _)
DigestRange(data, m, lo, hi) ==
  IF lo > hi THEN <<1, 0>>
  ELSE IF lo = hi THEN <<m, data[lo] + 1>>
  ELSE LET mid == (lo + hi) \div 2
           l   == DigestRange(data, m, lo, mid)
           r   == DigestRange(data, m, mid + 1, hi)
       IN <<(l[1] * r[1]) % 46337, (l[2] * r[1] + r[2]) % 46337>>

\* The eight 16-bit words of the stand-in digest.
DigestWords(data) ==
  [k \in 1..8 |->
     LET d == DigestRange(data, DigestMultipliers[k], 1, Len(data))
     IN (k * d[1] + d[2]) % 46337]

\* Four lower-case hex digits for each word of h.
HexWords(h) ==
  Flatten([k \in 1..Len(h) |->
    <<HexDigit(h[k] \div 4096), HexDigit((h[k] \div 256) % 16),
      HexDigit((h[k] \div 16) % 16), HexDigit(h[k] % 16)>>])

\* hashlib.sha256(data).hexdigest()[:32] (real_compressor.py:317, :396,
\* :414): 32 lower-case hex digits that depend on every byte of data.
\* SHA-256 itself is replaced by a stand-in with the same output format; the
\* stand-in has no collision among the byte strings the model reaches, which
\* is what the code relies on SHA-256 for.
Sha256Hex32(data) == HexWords(DigestWords(data))

\* The sums of Adler-32 over the bytes lo..hi, computed by halving the
\* range: <<sum of data[i], sum of (hi - i + 1) * data[i]>> modulo 65521.
RECURSIVE AdlerRange(_, _, _)
AdlerRange(data, lo, hi) ==
  IF lo > hi THEN <<0, 0>>
  ELSE IF lo = hi THEN <<data[lo], data[lo]>>
  ELSE LET mid == (lo + hi) \div 2
           l   == AdlerRange(data, lo, mid)
           r   == AdlerRange(data, mid + 1, hi)
       IN <<(l[1] + r[1]) % 65521, (l[2] + (hi - mid) * l[1] + r[2]) % 65521>>

\* Adler-32 of data as <<a, b>> (the checksum is b * 65536 + a): the
\* trailer of a zlib stream.
Adler32(data) ==
  LET r == AdlerRange(data, 1, Len(data))
  IN <<(1 + r[1]) % 65521, (Len(data) + r[2]) % 65521>>

\* The bits deflate's fixed Huffman code spends on one literal byte.
LiteralBits(b) == IF b < 144 THEN 8 ELSE 9

RECURSIVE SumLiteralBits(_, _)
SumLiteralBits(data, i) ==
  IF i > Len(data) THEN 0 ELSE LiteralBits(data[i]) + SumLiteralBits(data, i + 1)


(***************************************************************************)
(* The input blobs of the model.                                           *)
(***************************************************************************)
\* Every byte string over FreeAlphabet of length 0..MaxFreeLen.
FreeInputs == SeqsUpTo(FreeAlphabet, MaxFreeLen)

\* pattern * count for the patterns b'A', b'AB', b'\xff'.
RepeatInputs ==
  {Repeat(p, c) : p \in {<<65>>, <<65, 66>>, <<255>>}, c \in {20, 100, 150}}

\* The deepest expansion of each catalog system among the inputs.
LSystemDepths == <<3, 4, 6, 3>>

Expansion(k, d) ==
  Utf8Encode(generate_lsystem(InitialLSystems[k].axiom, InitialLSystems[k].rules, d))

\* An expansion with its last character replaced by '!': not an expansion.
NearMiss(k) ==
  LET t == Expansion(k, LSystemDepths[k]) IN [t EXCEPT ![Len(t)] = 33]

LSystemInputs == UNION {{Expansion(k, d) : d \in 1..LSystemDepths[k]} : k \in 1..4}

NearMissInputs == {NearMiss(k) : k \in 1..4}

RECURSIVE FibList(_, _, _)
FibList(a, b, n) ==
  IF n <= 2 THEN <<a, b>>
  ELSE LET s == FibList(a, b, n - 1) IN Append(s, s[n - 1] + s[n - 2])

\* The integer lists whose text is an input.
NumberLists ==
  { [i \in 1..70 |-> i - 1],
    <<0, 7, 14, 21>>,
    <<0, 7, 15, 21>>,
    FibList(1, 1, 8),
    FibList(1, 1, 46),
    get_primes(5),
    get_primes(60),
    <<1, 2, 4, 8>>,
    [i \in 1..31 |-> 2 ^ (i - 1)] }

\* The text of a list of integers, its terms joined by sep.
NumberText(numbers, sep) ==
  Join([i \in 1..Len(numbers) |-> IntToStr(numbers[i])], sep)

\* Each list in its canonical spelling ("0,1,2") and with a space after
\* every comma ("0, 1, 2"), which int() accepts as well.
NumberInputs == {NumberText(X, sep) : X \in NumberLists, sep \in {<<44>>, <<44, 32>>}}

StructuredInputs == RepeatInputs \cup LSystemInputs \cup NearMissInputs \cup NumberInputs

Inputs == FreeInputs \cup StructuredInputs


\* len(zlib.compress(data, level=9)) for the inputs of the model longer
\* than 4 bytes, measured with zlib 1.2/1.3 and keyed by the Adler-32
\* <<a, b>> of the input: <<a, b, length>>.
ZlibMeasured ==
  { <<1301, 13670, 11>>, <<6501, 745, 12>>, <<9751, 15544, 12>>, <<2621, 53740, 13>>,
    <<13101, 6280, 13>>, <<19651, 9105, 14>>, <<5101, 53570, 12>>, <<25501, 42951, 12>>,
    <<38251, 5101, 12>>, <<527, 2639, 15>>, <<2807, 4678, 22>>, <<14207, 6932, 32>>,
    <<14170, 6895, 33>>, <<903, 7080, 21>>, <<2703, 60792, 31>>, <<8103, 16858, 43>>,
    <<24303, 19570, 57>>, <<24265, 19532, 58>>, <<404, 1488, 14>>, <<897, 6869, 20>>,
    <<1883, 29455, 25>>, <<3855, 56418, 30>>, <<7799, 37540, 35>>, <<15687, 36237, 41>>,
    <<15677, 36227, 42>>, <<649, 3899, 19>>, <<2979, 11958, 36>>, <<12299, 58900, 54>>,
    <<12287, 58888, 54>>, <<9802, 54125, 108>>, <<12010, 26331, 128>>, <<436, 2176, 17>>,
    <<532, 3438, 20>>, <<437, 2180, 17>>, <<533, 3443, 20>>, <<816, 7299, 25>>,
    <<1040, 12880, 29>>, <<14193, 9740, 153>>, <<15633, 5294, 174>>, <<484, 2659, 18>>,
    <<612, 4577, 22>>, <<10434, 48259, 115>>, <<12322, 10739, 128>>, <<340, 1340, 15>>,
    <<436, 2386, 18>>, <<9506, 33908, 111>>, <<10466, 3979, 123>>,
    <<9803, 54228, 109>>, <<9794, 54118, 107>>, <<9818, 51111, 108>>, <<9966, 8416, 109>>,
    <<9846, 63971, 108>>, <<9901, 8353, 109>>, <<10057, 64182, 109>>,
    <<326, 980, 11>>, <<391, 1371, 11>>, <<456, 1827, 11>>, <<521, 2348, 11>>,
    <<586, 2934, 11>>, <<651, 3585, 11>>, <<716, 4301, 11>>, <<6436, 59765, 12>>,
    <<21646, 11393, 13>>, <<21711, 33104, 13>>, <<32436, 50166, 14>>, <<32501, 17146, 14>>,
    <<394, 1380, 12>>, <<525, 2364, 12>>, <<656, 3610, 12>>, <<787, 5118, 12>>,
    <<918, 6888, 12>>, <<1049, 8920, 12>>, <<1180, 11214, 12>>, <<1311, 13770, 12>>,
    <<1442, 16588, 12>>, <<12970, 45665, 13>>, <<43624, 3108, 16>>, <<43755, 25031, 16>>,
    <<397, 1388, 14>>, <<595, 2973, 13>>, <<793, 5152, 13>>, <<991, 7925, 13>>,
    <<1189, 11292, 13>>, <<1387, 15253, 13>>, <<1585, 19808, 13>>, <<1783, 24957, 13>>,
    <<1981, 30700, 13>>, <<2179, 37037, 13>>, <<19603, 37873, 15>>, <<19801, 31555, 15>>,
    <<1276, 3830, 11>>, <<1531, 5361, 11>>, <<1786, 7147, 11>>, <<2041, 9188, 11>>,
    <<2296, 11484, 11>>, <<2551, 14035, 11>>, <<2806, 16841, 11>>, <<25246, 17450, 12>>,
    <<19395, 28602, 14>>, <<19650, 48252, 14>>, <<61725, 34064, 14>>, <<61980, 30523, 14>>,
    <<781, 5082, 11>>, <<846, 5928, 11>>, <<1573, 19668, 12>>, <<1704, 23010, 12>>, <<2377, 43968, 13>>, <<2575, 51493, 14>>, <<3061, 19902, 11>>, <<3316, 23218, 12>> }

\* len(zlib.compress(data, level=9)) (real_compressor.py:529-530).  Up to 4
\* bytes deflate writes one fixed-Huffman block of literals: 3 header bits,
\* the literals, 7 bits of end-of-block, rounded up to bytes, between the
\* 2-byte zlib header and the 4-byte Adler-32.  Longer inputs have their
\* measured length.
ZlibLen(data) ==
  IF Len(data) <= 4 THEN 6 + ((10 + SumLiteralBits(data, 1) + 7) \div 8)
  ELSE LET k == Adler32(data)
           e == CHOOSE e \in ZlibMeasured : e[1] = k[1] /\ e[2] = k[2]
       IN e[3]

\* zlib.compress(data, level=9): the zlib header 78 DA, the deflate body, and
\* the Adler-32 of data, big-endian.  The stream has the library's length;
\* the bits of the deflate body, which the compressor never looks at, are
\* stood in for by digest bytes of data.
ZlibCompress(data) ==
  LET k == Adler32(data)
      h == DigestWords(data)
      n == ZlibLen(data) - 6
  IN <<120, 218>>
     \o [i \in 1..n |-> (h[((i - 1) % 8) + 1] \div (IF ((i - 1) \div 8) % 2 = 0 THEN 1 ELSE 256)) % 256]
     \o <<k[2] \div 256, k[2] % 256, k[1] \div 256, k[1] % 256>>


\* zlib.decompress(stream) (real_compressor.py:390): the bytes whose stream
\* this is, or zlib.error.  The streams the model can tell apart are those
\* of its own input blobs.
ZlibDecompress(stream) ==
  LET n     == Len(stream)
      cands == {d \in Inputs :
                  /\ n >= 6
                  /\ LET k == Adler32(d)
                     IN SubSeq(stream, n - 3, n)
                          = <<k[2] \div 256, k[2] % 256, k[1] \div 256, k[1] % 256>>
                  /\ ZlibCompress(d) = stream}
  IN IF cands = {} THEN Raise("zlib.error")
     ELSE JBytes(CHOOSE d \in cands : TRUE)

(***************************************************************************)
(* The container: CompressedData (real_compressor.py:28-103).              *)
(***************************************************************************)
\* MAGIC = b'SEMC'
MAGIC == <<83, 69, 77, 67>>

VERSION == 1

\* CompressionType
PATTERN_REPEAT == 1

SEQUENCE == 2

LSYSTEM == 3

FRACTAL_IFS == 4

DICTIONARY == 5

HYBRID == 6

\* The keys of the payload and of the seeds.
K_type == <<116, 121, 112, 101>>

K_seed == <<115, 101, 101, 100>>

K_seed_is_bytes == <<115, 101, 101, 100, 95, 105, 115, 95, 98, 121, 116, 101, 115>>

K_params == <<112, 97, 114, 97, 109, 115>>

K_orig_size == <<111, 114, 105, 103, 95, 115, 105, 122, 101>>

K_hash == <<104, 97, 115, 104>>

K_count == <<99, 111, 117, 110, 116>>

K_rules == <<114, 117, 108, 101, 115>>

K_iterations == <<105, 116, 101, 114, 97, 116, 105, 111, 110, 115>>

K_start == <<115, 116, 97, 114, 116>>

K_step == <<115, 116, 101, 112>>

K_ratio == <<114, 97, 116, 105, 111>>

K_a == <<97>>

K_b == <<98>>

K_base == <<98, 97, 115, 101>>

T_arithmetic == <<97, 114, 105, 116, 104, 109, 101, 116, 105, 99>>

T_geometric == <<103, 101, 111, 109, 101, 116, 114, 105, 99>>

T_fibonacci == <<102, 105, 98, 111, 110, 97, 99, 99, 105>>

T_powers == <<112, 111, 119, 101, 114, 115>>

T_primes == <<112, 114, 105, 109, 101, 115>>

\* CompressedData(compression_type, seed, generator_params, original_size,
\* original_hash).  The dataclass checks no types: every field but the
\* compression type is an arbitrary Python value.
CompressedData(type, seed, params, size, hash) ==
  [t |-> "CompressedData", compression_type |-> type, seed |-> seed,
   generator_params |-> params, original_size |-> size, original_hash |-> hash]

\* bool(x)
Truthy(x) ==
  CASE x.t = "none"  -> FALSE
    [] x.t = "bool"  -> x.v
    [] x.t = "int"   -> x.v # 0
    [] x.t = "float" -> ~(x.v[1] = 0 /\ x.v[2] # 0)
    [] OTHER         -> Len(x.v) > 0

\* The length written most significant byte first: struct.pack('>I', n).
PackBE32(n) ==
  <<(n \div 16777216) % 256, (n \div 65536) % 256, (n \div 256) % 256, n % 256>>

\* struct.pack('<I', n): 4 bytes, little-endian.
PackLE32(n) ==
  <<n % 256, (n \div 256) % 256, (n \div 65536) % 256, (n \div 16777216) % 256>>

\* struct.unpack('<I', b)[0] for 4 bytes b with b[4] < 128 (a value below
\* 2^31).
UnpackLE32(b) == b[1] + 256 * b[2] + 65536 * b[3] + 16777216 * b[4]

\* data[9:9+payload_len] (real_compressor.py:81-82): the slice ends at the
\* end of data when the length field reaches past it.  A length field of
\* 2^31 or more is past the end of every blob the model holds.
PayloadSlice(data) ==
  IF data[9] >= 128 THEN Slice(data, 10, Len(data))
  ELSE IF UnpackLE32(Slice(data, 6, 9)) >= Len(data) THEN Slice(data, 10, Len(data))
  ELSE Slice(data, 10, 9 + UnpackLE32(Slice(data, 6, 9)))

\* The record json.dumps is given in to_bytes.
PayloadDict(c) ==
  JDict(<< <<K_type, JInt(c.compression_type)>>,
           <<K_seed, IF c.seed.t = "bytes" THEN JStr(HexEncode(c.seed.v)) ELSE c.seed>>,
           <<K_seed_is_bytes, JBool(c.seed.t = "bytes")>>,
           <<K_params, c.generator_params>>,
           <<K_orig_size, c.original_size>>,
           <<K_hash, c.original_hash>> >>)

\* header + payload (real_compressor.py:68-69).
Frame(payload) == JBytes(MAGIC \o <<VERSION>> \o PackLE32(Len(payload)) \o payload)

\* json.dumps({...}).encode('utf-8') and the header, for the record d.
DumpAndFrame(d) ==
  IF ~JsonSerializable(d) THEN Raise("TypeError")
  ELSE Frame(Utf8Encode(JsonDumps(d)))

\* CompressedData.to_bytes(): the bytes, or TypeError for a field json.dumps
\* cannot serialize.
to_bytes(c) == DumpAndFrame(PayloadDict(c))

\* CompressionType(value): the member with that value.  An int, a bool or a
\* float equal to one of 1..6 names a member (they hash and compare equal);
\* a str or None names none (ValueError); a dict or list is unhashable
\* (TypeError).
EnumValue(x) ==
  CASE x.t = "int"   -> IF x.v >= 1 /\ x.v <= 6 THEN JInt(x.v) ELSE Raise("ValueError")
    [] x.t = "bool"  -> IF x.v THEN JInt(1) ELSE Raise("ValueError")
    [] x.t = "float" -> IF x.v[2] = 1 /\ x.v[1] >= 1 /\ x.v[1] <= 6
                        THEN JInt(x.v[1]) ELSE Raise("ValueError")
    [] x.t = "dict" \/ x.t = "list" -> Raise("TypeError")
    [] OTHER         -> Raise("ValueError")

\* A parser that keeps the seed as the payload spells it, hex text
\* included.
PayloadSeedVerbatim(payload) == Get(payload, K_seed)

\* seed = payload['seed']; if payload.get('seed_is_bytes'): seed =
\* bytes.fromhex(seed)
PayloadSeed(payload) ==
  IF ~(HasKey(payload, K_seed_is_bytes) /\ Truthy(Get(payload, K_seed_is_bytes)))
  THEN Get(payload, K_seed)
  ELSE IF Get(payload, K_seed).t # "str" THEN Raise("TypeError")
  ELSE HexDecode(Get(payload, K_seed).v)

\* cls(compression_type=CompressionType(payload['type']), seed=seed, ...)
\* (real_compressor.py:88-94), with the exceptions of the seed and of the
\* enum lookup.
BuildContainer(payload, seed, type) ==
  IF IsRaise(seed) THEN seed
  ELSE IF IsRaise(type) THEN type
  ELSE IF ~HasKey(payload, K_params) \/ ~HasKey(payload, K_orig_size)
          \/ ~HasKey(payload, K_hash)
       THEN Raise("KeyError")
  ELSE CompressedData(type.v, seed, Get(payload, K_params),
                      Get(payload, K_orig_size), Get(payload, K_hash))

\* The part of from_bytes after json.loads (real_compressor.py:84-94), for
\* what json.loads returned or raised.
FromPayload(payload) ==
  IF IsRaise(payload) THEN payload
  ELSE IF payload.t # "dict" THEN Raise("TypeError")
  ELSE IF ~HasKey(payload, K_seed) THEN Raise("KeyError")
  ELSE BuildContainer(payload, PayloadSeed(payload),
                      IF HasKey(payload, K_type) THEN EnumValue(Get(payload, K_type))
                      ELSE Raise("KeyError"))

\* json.loads(....decode('utf-8')) for what decode returned or raised.
LoadPayload(text) == IF IsRaise(text) THEN text ELSE JsonLoads(text.v)

\* A parser that reads the length and the payload whatever the first five
\* bytes are.
from_bytes_lenient(data) ==
  IF Len(data) < 9 THEN Raise("struct.error")
  ELSE FromPayload(LoadPayload(Utf8Decode(PayloadSlice(data))))

\* CompressedData.from_bytes(data): the container, or the exception raised.
from_bytes(data) ==
  IF Slice(data, 1, 4) # MAGIC THEN Raise("ValueError")
  ELSE IF Len(data) < 5 THEN Raise("IndexError")
  ELSE IF data[5] # VERSION THEN Raise("ValueError")
  ELSE IF Len(Slice(data, 6, 9)) # 4 THEN Raise("struct.error")
  ELSE FromPayload(LoadPayload(Utf8Decode(PayloadSlice(data))))

\* compressed_size(): len(self.to_bytes()).
compressed_size(c) == Len(to_bytes(c).v)

\* a/b > c/d for positive b and d: how two ratio() values compare (the
\* floats of two different quotients of lengths below 2^15 differ).
RatioGreater(a, b, c, d) == a * d > c * b


(***************************************************************************)
(* SemanticCompressor (real_compressor.py:304-548).                        *)
(***************************************************************************)
\* A pattern container that records the size and the digest of the pattern
\* in place of the blob's.
PatternDataOfSeed(result, blob) ==
  IF IsNone(result) THEN JNone
  ELSE CompressedData(PATTERN_REPEAT, JBytes(result.v[1]),
                      JDict(<< <<K_count, JInt(result.v[2])>> >>),
                      JInt(Len(result.v[1])), JStr(Sha256Hex32(result.v[1])))

\* The container _try_pattern_compression builds from what
\* find_repeating_pattern returned.
PatternData(result, data) ==
  IF IsNone(result) THEN JNone
  ELSE CompressedData(PATTERN_REPEAT, JBytes(result.v[1]),
                      JDict(<< <<K_count, JInt(result.v[2])>> >>),
                      JInt(Len(data)), JStr(Sha256Hex32(data)))

\* _try_pattern_compression(data)
try_pattern_compression(data) == PatternData(find_repeating_pattern(data), data)

\* The container _try_lsystem_compression builds from what find_lsystem
\* returned; its rules are the rules of the catalog entry that matched.
LSystemData(result, orig_size, orig_hash) ==
  IF IsNone(result) THEN JNone
  ELSE CompressedData(LSYSTEM, JStr(result.v[1]),
                      JDict(<< <<K_rules, result.v[2]>>,
                               <<K_iterations, JInt(result.v[3])>> >>),
                      orig_size, orig_hash)

\* _try_lsystem_compression(text, orig_size, orig_hash)
try_lsystem_compression(text, orig_size, orig_hash, known) ==
  LSystemData(find_lsystem(text, known), orig_size, orig_hash)

\* The container of one sequence family.
SequenceData(seed, orig_size, orig_hash) ==
  CompressedData(SEQUENCE, JDict(seed), JDict(<< >>), orig_size, orig_hash)

ArithmeticSeed(r) ==
  << <<K_type, JStr(T_arithmetic)>>, <<K_start, JInt(r[1])>>,
     <<K_step, JInt(r[2])>>, <<K_count, JInt(r[3])>> >>

GeometricSeed(r) ==
  << <<K_type, JStr(T_geometric)>>, <<K_start, JInt(r[1])>>,
     <<K_ratio, JFloat(r[2][1], r[2][2])>>, <<K_count, JInt(r[3])>> >>

FibonacciSeed(r) ==
  << <<K_type, JStr(T_fibonacci)>>, <<K_a, JInt(r[1])>>,
     <<K_b, JInt(r[2])>>, <<K_count, JInt(r[3])>> >>

PowersSeed(r) ==
  << <<K_type, JStr(T_powers)>>, <<K_base, JInt(r[1])>>, <<K_count, JInt(r[2])>> >>

PrimesSeed(n) == << <<K_type, JStr(T_primes)>>, <<K_count, JInt(n)>> >>

\* The family _try_sequence_compression settles on, given what the five
\* detectors return: the first that matched, in the order arithmetic,
\* geometric, Fibonacci, powers, primes.  The exception of the geometric
\* detector is not caught here: it leaves the method before the families
\* after it are looked at.
FirstFamily(ar, ge, fi, po, pr, orig_size, orig_hash) ==
  IF ~IsNone(ar) THEN SequenceData(ArithmeticSeed(ar.v), orig_size, orig_hash)
  ELSE IF IsRaise(ge) THEN ge
  ELSE IF ~IsNone(ge) THEN SequenceData(GeometricSeed(ge.v), orig_size, orig_hash)
  ELSE IF ~IsNone(fi) THEN SequenceData(FibonacciSeed(fi.v), orig_size, orig_hash)
  ELSE IF ~IsNone(po) THEN SequenceData(PowersSeed(po.v), orig_size, orig_hash)
  ELSE IF ~IsNone(pr) /\ pr.v # 0
       THEN SequenceData(PrimesSeed(pr.v), orig_size, orig_hash)
  ELSE JNone

\* _try_sequence_compression(numbers, orig_size, orig_hash)
try_sequence_compression(numbers, orig_size, orig_hash) ==
  FirstFamily(find_arithmetic_sequence(numbers), find_geometric_sequence(numbers),
              find_fibonacci_like(numbers), find_powers(numbers),
              find_primes_sequence(numbers), orig_size, orig_hash)

\* _try_dictionary_compression(data, orig_size, orig_hash)
try_dictionary_compression(data, orig_size, orig_hash) ==
  IF ZlibLen(data) >= orig_size.v THEN JNone
  ELSE CompressedData(DICTIONARY, JStr(HexEncode(ZlibCompress(data))),
                      JDict(<< >>), orig_size, orig_hash)

\* try: ... except: pass (or: return None) -- an exception leaves None.
Caught(result) == IF IsRaise(result) THEN JNone ELSE result

\* A list that leaves out the tokens int() rejected.
IntListSkipping(vals) ==
  JList(SelectSeq([i \in 1..Len(vals) |-> IF IsRaise(vals[i]) THEN vals[i] ELSE JInt(vals[i].v)],
                  LAMBDA x : ~IsRaise(x)))

\* [int(x.strip()) for x in text.split(',')] for the ints (or exceptions)
\* of the tokens: the list, or the exception.
IntList(vals) ==
  IF \E i \in 1..Len(vals) : IsRaise(vals[i]) THEN Raise("ValueError")
  ELSE JList([i \in 1..Len(vals) |-> vals[i].v])

\* The body of the try of _parse_numbers for what decode returned or raised.
TokensToInts(text) ==
  IF IsRaise(text) THEN text
  ELSE IntList([i \in 1..Len(Split(text.v, CH_COMMA)) |-> PyInt(Split(text.v, CH_COMMA)[i])])

\* _parse_numbers(data): the list of integers, or None when the blob does
\* not decode or a token is no integer.
parse_numbers(data) == Caught(TokensToInts(Utf8Decode(data)))

\* A fallback that stores the first half of the blob as a pattern repeated
\* twice.
RawDataHalved(blob, original_size, original_hash) ==
  CompressedData(PATTERN_REPEAT, JBytes(SubSeq(blob, 1, Len(blob) \div 2)),
                 JDict(<< <<K_count, JInt(2)>> >>), original_size, original_hash)

\* The fallback of compress: the blob itself as a pattern repeated once.
RawData(data, original_size, original_hash) ==
  CompressedData(PATTERN_REPEAT, JBytes(data), JDict(<< <<K_count, JInt(1)>> >>),
                 original_size, original_hash)

\* The text of strategy 2 handed to _try_lsystem_compression, or the
\* exception of data.decode.
LSystemOfText(text, original_size, original_hash, known) ==
  IF IsRaise(text) THEN text
  ELSE try_lsystem_compression(text.v, original_size, original_hash, known)

\* Strategy 2 of compress before its try/except: the L-system candidate,
\* None, or the exception of data.decode.
LSystemStrategy(data, original_size, original_hash, known) ==
  LSystemOfText(Utf8Decode(data), original_size, original_hash, known)

\* if numbers: seq_result = self._try_sequence_compression(numbers, ...)
SequenceOfNumbers(numbers, original_size, original_hash) ==
  IF IsNone(numbers) \/ Len(numbers.v) = 0 THEN JNone
  ELSE try_sequence_compression(numbers.v, original_size, original_hash)

\* Strategy 3 of compress before its try/except.
SequenceStrategy(data, original_size, original_hash) ==
  SequenceOfNumbers(parse_numbers(data), original_size, original_hash)

\* if result and result.ratio() > best_ratio: best_result = result, for a
\* strategy that returned candidate (None, a container, or an exception that
\* was not caught and ends compress) after the strategies before it left
\* best (None while best_ratio is its initial 1.0).
Keep(best, candidate, n) ==
  IF IsRaise(best) THEN best
  ELSE IF IsRaise(candidate) THEN candidate
  ELSE IF IsNone(candidate) THEN best
  ELSE IF IsNone(best)
       THEN (IF RatioGreater(n, compressed_size(candidate), 1, 1) THEN candidate ELSE best)
  ELSE IF RatioGreater(n, compressed_size(candidate), n, compressed_size(best))
       THEN candidate
  ELSE best

\* Strategy 4 of compress: dictionary coding is tried when nothing was found
\* or best_ratio < 1.5, and taken when nothing was found or its ratio is
\* better.
DictionaryStrategy(best, dict, n) ==
  IF IsRaise(best) THEN best
  ELSE IF IsNone(best) THEN dict
  ELSE IF 2 * n < 3 * compressed_size(best) THEN Keep(best, dict, n)
  ELSE best

\* A compress without the raw fallback: what the strategies left, None
\* included.
WithoutRaw(best, data, original_size, original_hash) == best

\* if best_result is None: store raw.
OrRaw(best, data, original_size, original_hash) ==
  IF IsNone(best) THEN RawData(data, original_size, original_hash) ELSE best

\* The strategies of compress in their order.
Strategies(data, original_size, original_hash, known) ==
  OrRaw(DictionaryStrategy(
          Keep(Keep(Keep(JNone, try_pattern_compression(data), Len(data)),
                    Caught(LSystemStrategy(data, original_size, original_hash, known)),
                    Len(data)),
               Caught(SequenceStrategy(data, original_size, original_hash)),
               Len(data)),
          try_dictionary_compression(data, original_size, original_hash),
          Len(data)),
        data, original_size, original_hash)

\* SemanticCompressor.compress(data), with the catalog KNOWN_LSYSTEMS it
\* reads: the container, or the exception that leaves the method.
compress(data, known) ==
  Strategies(data, JInt(Len(data)), JStr(Sha256Hex32(data)), known)

\* Equality of two Python values, compared tag first (values of different
\* types are unequal, as == between a str and an int or None is False).
JEq(x, y) == x.t = y.t /\ x.v = y.v

IsIntValue(x) == x.t = "int"

\* seed[k] in _decompress_sequence for an integer field: the int, or the
\* KeyError of a missing key.  The containers of the model hold ints in
\* these fields.
SeedInt(seed, k) ==
  IF ~HasKey(seed, k) THEN Raise("KeyError")
  ELSE IF ~IsIntValue(Get(seed, k)) THEN Raise("TypeError")
  ELSE Get(seed, k)

\* ratio ** i as a fraction.
RECURSIVE FloatPow(_, _)
FloatPow(ratio, i) ==
  IF i <= 0 THEN <<1, 1>>
  ELSE LET p == FloatPow(ratio, i - 1) IN <<p[1] * ratio[1], p[2] * ratio[2]>>

\* The loop of the 'fibonacci' branch: [a, b] extended count - 2 times.
RECURSIVE FibonacciExtend(_, _)
FibonacciExtend(numbers, more) ==
  IF more <= 0 THEN numbers
  ELSE FibonacciExtend(
         Append(numbers, numbers[Len(numbers)] + numbers[Len(numbers) - 1]),
         more - 1)

RECURSIVE IntPow(_, _)
IntPow(base, i) == IF i <= 0 THEN 1 ELSE base * IntPow(base, i - 1)

\* all(candidate % p != 0 for p in numbers)
Undivided(candidate, numbers) ==
  \A i \in 1..Len(numbers) : candidate % numbers[i] # 0

\* The loop of the 'primes' branch: a candidate joins the list when no
\* number of the list divides it.  The candidates that some number divides
\* change nothing, so the loop is taken from one accepted candidate to the
\* next.
RECURSIVE PrimesLoop(_, _, _)
PrimesLoop(count, candidate, numbers) ==
  IF Len(numbers) >= count THEN numbers
  ELSE LET next == CHOOSE p \in candidate..(2 * candidate) :
                     /\ Undivided(p, numbers)
                     /\ \A q \in candidate..(p - 1) : ~Undivided(q, numbers)
       IN PrimesLoop(count, next + 1, Append(numbers, next))

\* The numbers of _decompress_sequence for a seed dict, or the exception.
SequenceNumbers(seed) ==
  LET seq_type == Get(seed, K_type)
      count    == SeedInt(seed, K_count)
      n        == IF count.v < 0 THEN 0 ELSE count.v
  IN IF IsRaise(count) THEN count
     ELSE IF JEq(seq_type, JStr(T_arithmetic)) THEN
       LET start == SeedInt(seed, K_start)
           step  == SeedInt(seed, K_step)
       IN IF IsRaise(start) THEN start
          ELSE IF IsRaise(step) THEN step
          ELSE JList([i \in 1..n |-> start.v + (i - 1) * step.v])
     ELSE IF JEq(seq_type, JStr(T_geometric)) THEN
       LET start == SeedInt(seed, K_start)
           ratio == IF HasKey(seed, K_ratio) THEN Get(seed, K_ratio) ELSE Raise("KeyError")
           r     == IF ratio.t = "int" THEN <<ratio.v, 1>> ELSE ratio.v
       IN IF IsRaise(start) THEN start
          ELSE IF IsRaise(ratio) THEN ratio
          ELSE IF ratio.t \notin {"int", "float"} THEN Raise("TypeError")
          ELSE JList([i \in 1..n |->
                  LET p == FloatPow(r, i - 1)
                  IN TruncDiv(start.v * p[1], p[2])])
     ELSE IF JEq(seq_type, JStr(T_fibonacci)) THEN
       LET a == SeedInt(seed, K_a)
           b == SeedInt(seed, K_b)
       IN IF IsRaise(a) THEN a
          ELSE IF IsRaise(b) THEN b
          ELSE JList(FibonacciExtend(<<a.v, b.v>>, count.v - 2))
     ELSE IF JEq(seq_type, JStr(T_powers)) THEN
       LET base == SeedInt(seed, K_base)
       IN IF IsRaise(base) THEN base
          ELSE JList([i \in 1..n |-> IntPow(base.v, i - 1)])
     ELSE IF JEq(seq_type, JStr(T_primes)) THEN
       JList(PrimesLoop(count.v, 2, << >>))
     ELSE Raise("ValueError")

\* text = ','.join(map(str, numbers)); return text.encode('utf-8'), for the
\* numbers (or the exception) of the branches.
FormatNumbers(numbers) ==
  IF IsRaise(numbers) THEN numbers
  ELSE JBytes(Utf8Encode(
         Join([i \in 1..Len(numbers.v) |-> IntToStr(numbers.v[i])], <<CH_COMMA>>)))

\* _decompress_sequence(compressed)
decompress_sequence(compressed) ==
  IF compressed.seed.t # "dict" THEN Raise("TypeError")
  ELSE IF ~HasKey(compressed.seed, K_type) THEN Raise("KeyError")
  ELSE FormatNumbers(SequenceNumbers(compressed.seed))

\* generator_params[k], or the exception of the lookup.
Param(compressed, k) ==
  IF compressed.generator_params.t # "dict" THEN Raise("TypeError")
  ELSE IF ~HasKey(compressed.generator_params, k) THEN Raise("KeyError")
  ELSE Get(compressed.generator_params, k)

\* zlib.decompress(bytes.fromhex(seed)) for what fromhex returned or raised.
Inflate(compressed_payload) ==
  IF IsRaise(compressed_payload) THEN compressed_payload
  ELSE ZlibDecompress(compressed_payload.v)

\* pattern * count for the PATTERN_REPEAT branch.
RepeatPattern(pattern, count) ==
  IF IsRaise(count) THEN count
  ELSE IF pattern.t # "bytes" \/ ~IsIntValue(count) THEN Raise("TypeError")
  ELSE JBytes(Repeat(pattern.v, IF count.v < 0 THEN 0 ELSE count.v))

\* The first pass of generate_lsystem over an axiom that is a dict: the
\* loop iterates its keys, and rules.get(key, key) replaces whole keys.
KeysRewritten(pairs, rules) ==
  Flatten([i \in 1..Len(pairs) |->
             IF HasKey(rules, pairs[i][1]) THEN Get(rules, pairs[i][1]).v ELSE pairs[i][1]])

\* generate_lsystem(axiom, rules, iterations).encode('utf-8') for the
\* LSYSTEM branch.
ExpandLSystem(axiom, rules, iterations) ==
  IF IsRaise(rules) THEN rules
  ELSE IF IsRaise(iterations) THEN iterations
  ELSE IF rules.t # "dict" \/ ~IsIntValue(iterations) THEN Raise("TypeError")
  ELSE IF axiom.t = "dict" /\ iterations.v >= 1
       THEN JBytes(Utf8Encode(generate_lsystem(KeysRewritten(axiom.v, rules), rules,
                                               iterations.v - 1)))
  ELSE IF axiom.t # "str" THEN Raise("TypeError")
  ELSE JBytes(Utf8Encode(generate_lsystem(axiom.v, rules, iterations.v)))

\* The branches of decompress before the hash check: the regenerated bytes,
\* or the exception of the branch.
Regenerate(compressed) ==
  IF compressed.compression_type = PATTERN_REPEAT THEN
    RepeatPattern(IF compressed.seed.t = "str"
                  THEN JBytes(Utf8Encode(compressed.seed.v)) ELSE compressed.seed,
                  Param(compressed, K_count))
  ELSE IF compressed.compression_type = SEQUENCE THEN
    decompress_sequence(compressed)
  ELSE IF compressed.compression_type = LSYSTEM THEN
    ExpandLSystem(compressed.seed, Param(compressed, K_rules),
                  Param(compressed, K_iterations))
  ELSE IF compressed.compression_type = DICTIONARY THEN
    (IF compressed.seed.t # "str" THEN Raise("TypeError")
     ELSE Inflate(HexDecode(compressed.seed.v)))
  ELSE Raise("ValueError")

\* A decompress that returns what it regenerated without looking at the
\* stored digest.
Unverified(result, original_hash) == result

\* if result_hash != compressed.original_hash: raise ValueError
VerifyHash(result, original_hash) ==
  IF IsRaise(result) THEN result
  ELSE IF ~JEq(JStr(Sha256Hex32(result.v)), original_hash) THEN Raise("ValueError")
  ELSE result

\* SemanticCompressor.decompress(compressed): the regenerated bytes when
\* their digest is the recorded one, an exception otherwise.
decompress(compressed) == VerifyHash(Regenerate(compressed), compressed.original_hash)

(***************************************************************************)
(* The generator registry of semantic_codec.py: a dict from a name to a    *)
(* function.  A function is named by its def; the table after the module   *)
(* is imported holds the six decorated generators.                         *)
(***************************************************************************)
InitialGenerators ==
  [name \in {"fibonacci", "powers_of_two", "primes", "repeated_pattern", "ljpw_metrics",
             "mathematical_constant"} |->
     CASE name = "fibonacci"             -> "gen_fibonacci"
       [] name = "powers_of_two"         -> "gen_powers_of_two"
       [] name = "primes"                -> "gen_primes"
       [] name = "repeated_pattern"      -> "gen_repeated_pattern"
       [] name = "ljpw_metrics"          -> "gen_ljpw_metrics"
       [] name = "mathematical_constant" -> "gen_mathematical_constant"]

(***************************************************************************)
(* The state: the module-level catalog and one caller's session with the   *)
(* compressor (the blob it compressed, the container it holds, the bytes   *)
(* it serialized or received, what the parser and decompress gave back).   *)
(***************************************************************************)
VARIABLES
  KNOWN_LSYSTEMS,  \* the catalog find_lsystem reads (real_compressor.py:262)
  data,            \* the blob given to compress, JNone before the call
  container,       \* the CompressedData the caller holds
  again,           \* what a second compress(data) returned
  other,           \* what compress of another blob returned in between
  wire,            \* the serialized bytes the caller holds
  parsed,          \* what from_bytes(wire) returned or raised
  out,             \* what decompress(container) returned or raised
  outParsed,       \* what decompress(parsed) returned or raised
  tamper,          \* how the caller altered the container or the bytes
  call,            \* one call of a module-level function: name, argument, result
  search,          \* the loop of an L-system search, one expansion per step
  threads,         \* the calls of concurrent callers on one compressor
  GENERATORS,      \* the module-level generator table (semantic_codec.py:43)
  codecs           \* self.generators of each SemanticCodec, in order of construction

vars == <<KNOWN_LSYSTEMS, data, container, again, other, wire, parsed, out, outParsed, tamper,
          call, search, threads, GENERATORS, codecs>>

IsContainer(x) == x.t = "CompressedData"

Init ==
  /\ KNOWN_LSYSTEMS = InitialLSystems
  /\ data = JNone
  /\ container = JNone
  /\ again = JNone
  /\ other = JNone
  /\ wire = JNone
  /\ parsed = JNone
  /\ out = JNone
  /\ outParsed = JNone
  /\ tamper = "none"
  /\ call = JNone
  /\ search = JNone
  /\ threads = << >>
  /\ GENERATORS = InitialGenerators
  /\ codecs = << >>

\* A compress that uses up the catalog: after the call no system is left
\* for the next one.
CompressForgetting(d) ==
  /\ IsNone(data) /\ IsNone(container) /\ IsNone(wire)
  /\ data' = JBytes(d)
  /\ container' = compress(d, KNOWN_LSYSTEMS)
  /\ KNOWN_LSYSTEMS' = << >>
  /\ UNCHANGED <<GENERATORS, codecs, again, wire, parsed, out, outParsed, tamper, other, call, search, threads>>

\* container = SemanticCompressor().compress(d)
Compress(d) ==
  /\ IsNone(data) /\ IsNone(container) /\ IsNone(wire)
  /\ data' = JBytes(d)
  /\ container' = compress(d, KNOWN_LSYSTEMS)
  /\ UNCHANGED <<GENERATORS, codecs, KNOWN_LSYSTEMS, again, wire, parsed, out, outParsed, tamper, other, call, search, threads>>

\* A second compress(data), after whatever calls came in between.
CompressAgain ==
  /\ ~IsNone(data) /\ IsNone(again)
  /\ again' = compress(data.v, KNOWN_LSYSTEMS)
  /\ UNCHANGED <<GENERATORS, codecs, KNOWN_LSYSTEMS, data, container, wire, parsed, out, outParsed, tamper, other, call, search, threads>>

\* out = decompress(container)
Decompress ==
  /\ IsContainer(container) /\ IsNone(out)
  /\ out' = decompress(container)
  /\ UNCHANGED <<GENERATORS, codecs, KNOWN_LSYSTEMS, data, container, again, wire, parsed, outParsed, tamper, other, call, search, threads>>

\* wire = container.to_bytes()
ToBytes ==
  /\ IsContainer(container) /\ IsNone(wire)
  /\ wire' = to_bytes(container)
  /\ UNCHANGED <<GENERATORS, codecs, KNOWN_LSYSTEMS, data, container, again, parsed, out, outParsed, tamper, other, call, search, threads>>

\* parsed = CompressedData.from_bytes(wire)
FromBytes ==
  /\ wire.t = "bytes" /\ IsNone(parsed)
  /\ parsed' = from_bytes(wire.v)
  /\ UNCHANGED <<GENERATORS, codecs, KNOWN_LSYSTEMS, data, container, again, wire, out, outParsed, tamper, other, call, search, threads>>

\* outParsed = decompress(parsed)
DecompressParsed ==
  /\ IsContainer(parsed) /\ IsNone(outParsed)
  /\ outParsed' = decompress(parsed)
  /\ UNCHANGED <<GENERATORS, codecs, KNOWN_LSYSTEMS, data, container, again, wire, parsed, out, tamper, other, call, search, threads>>

\* The other blobs a caller compresses between the two calls: the first
\* expansion of a catalog system, and a single byte.
OtherInputs == { Expansion(1, 1), <<65>> }

\* SemanticCompressor().compress(d) for another blob d, between the first
\* and the second call on data.
CompressOther(d) ==
  /\ ~IsNone(data) /\ IsNone(again) /\ IsNone(other)
  /\ d # data.v
  /\ other' = compress(d, KNOWN_LSYSTEMS)
  /\ UNCHANGED <<GENERATORS, codecs, KNOWN_LSYSTEMS, data, container, again, wire, parsed, out, outParsed, tamper, call, search, threads>>

\* A caller that compresses a blob, compresses it again, serializes, parses
\* and decompresses, in any order the data flow allows.
Next ==
  \/ \E d \in Inputs : Compress(d)
  \/ \E d \in OtherInputs : CompressOther(d)
  \/ CompressAgain
  \/ Decompress
  \/ ToBytes
  \/ FromBytes
  \/ DecompressParsed

Spec == Init /\ [][Next]_vars


(***************************************************************************)
(* Containers that did not come from compress: built by hand with the      *)
(* CompressedData constructor, or a returned container with one field      *)
(* altered.                                                                *)
(***************************************************************************)
\* Seeds of hand-built containers: bytes, str, values of other types, one
\* dict for each sequence family, a dict of an unknown family, dicts that
\* lack a key, a zlib stream in hex, and a str that is no hex.
HandSeeds ==
  { JBytes(<<65>>), JStr(<<65>>), JInt(7), JNone,
    JDict(ArithmeticSeed(<<1, 2, 3>>)),
    JDict(GeometricSeed(<<1, <<3, 2>>, 3>>)),
    JDict(FibonacciSeed(<<2, 3, 5>>)),
    JDict(FibonacciSeed(<<2, 3, 1>>)),
    JDict(PowersSeed(<<3, 3>>)),
    JDict(PrimesSeed(4)),
    JDict(<< <<K_type, JStr(<<99, 117, 98, 105, 99>>)>>, <<K_count, JInt(3)>> >>),
    JDict(<< <<K_count, JInt(3)>> >>),
    JDict(<< <<K_type, JStr(T_arithmetic)>>, <<K_count, JInt(3)>> >>),
    JStr(HexEncode(ZlibCompress(<<65>>))),
    JStr(<<122, 122>>) }

\* Generator parameters of hand-built containers.
HandParams ==
  { JDict(<< >>),
    JDict(<< <<K_count, JInt(3)>> >>),
    JDict(<< <<K_count, JInt(-1)>> >>),
    JDict(<< <<K_rules, InitialLSystems[4].rules>>, <<K_iterations, JInt(1)>> >>),
    JNone }

\* The blobs the hand-built containers above regenerate when their fields
\* fit together: b'AAA', b'', the five sequences, Fibonacci with count 1,
\* the first Hilbert expansion, and b'A'.
HandOutputs ==
  { <<65, 65, 65>>, << >>, <<49, 44, 51, 44, 53>>, <<49, 44, 49, 44, 50>>, <<50, 44, 51, 44, 53, 44, 56, 44, 49, 51>>, <<50, 44, 51>>, <<49, 44, 51, 44, 57>>,
    <<50, 44, 51, 44, 53, 44, 55>>, <<45, 66, 70, 43, 65, 70, 65, 43, 70, 66, 45>>, <<65>> }

\* Digests of hand-built containers: the digest of each such blob, an empty
\* str and None.
HandHashes == {JStr(Sha256Hex32(x)) : x \in HandOutputs} \cup {JStr(<< >>), JNone}

HandBuilt ==
  { CompressedData(t, s, p, JInt(3), h) :
      t \in PATTERN_REPEAT..HYBRID, s \in HandSeeds, p \in HandParams, h \in HandHashes }

\* container = CompressedData(...), written by the caller.
Build(c) ==
  /\ IsNone(data) /\ IsNone(container)
  /\ container' = c
  /\ tamper' = "built"
  /\ UNCHANGED <<GENERATORS, codecs, KNOWN_LSYSTEMS, data, again, wire, parsed, out, outParsed, other, call, search, threads>>

\* container.compression_type = CompressionType(t), for another member.
TamperType(t) ==
  /\ IsContainer(container) /\ tamper = "none" /\ IsNone(out)
  /\ t # container.compression_type
  /\ container' = [container EXCEPT !.compression_type = t]
  /\ tamper' = "type"
  /\ UNCHANGED <<GENERATORS, codecs, KNOWN_LSYSTEMS, data, again, wire, parsed, out, outParsed, other, call, search, threads>>

\* container.original_hash = h, for another value.
TamperHash(h) ==
  /\ IsContainer(container) /\ tamper = "none" /\ IsNone(out)
  /\ ~JEq(h, container.original_hash)
  /\ container' = [container EXCEPT !.original_hash = h]
  /\ tamper' = "hash"
  /\ UNCHANGED <<GENERATORS, codecs, KNOWN_LSYSTEMS, data, again, wire, parsed, out, outParsed, other, call, search, threads>>

\* container.seed = s, for another value.
TamperSeed(s) ==
  /\ IsContainer(container) /\ tamper = "none" /\ IsNone(out)
  /\ ~JEq(s, container.seed)
  /\ container' = [container EXCEPT !.seed = s]
  /\ tamper' = "seed"
  /\ UNCHANGED <<GENERATORS, codecs, KNOWN_LSYSTEMS, data, again, wire, parsed, out, outParsed, other, call, search, threads>>

\* container.generator_params = p, for another value.
TamperParams(p) ==
  /\ IsContainer(container) /\ tamper = "none" /\ IsNone(out)
  /\ ~JEq(p, container.generator_params)
  /\ container' = [container EXCEPT !.generator_params = p]
  /\ tamper' = "params"
  /\ UNCHANGED <<GENERATORS, codecs, KNOWN_LSYSTEMS, data, again, wire, parsed, out, outParsed, other, call, search, threads>>

\* The seeds a caller swaps in.
TamperSeeds ==
  { JBytes(<<66>>), JStr(<<70>>), JNone,
    JDict(<< <<K_type, JStr(<<99, 117, 98, 105, 99>>)>>, <<K_count, JInt(3)>> >>) }

\* A caller that decompresses containers it built by hand, and containers
\* from compress after altering one field.
NextDecompress ==
  \/ \E d \in Inputs : Compress(d)
  \/ \E c \in HandBuilt : Build(c)
  \/ \E t \in PATTERN_REPEAT..HYBRID : TamperType(t)
  \/ \E h \in HandHashes : TamperHash(h)
  \/ \E s \in TamperSeeds : TamperSeed(s)
  \/ \E p \in HandParams : TamperParams(p)
  \/ Decompress

SpecDecompress == Init /\ [][NextDecompress]_vars


(***************************************************************************)
(* Blobs that did not come from to_bytes unchanged: a serialized container *)
(* with bytes altered, cut or appended, and blobs put together by a        *)
(* sender.                                                                 *)
(***************************************************************************)
\* JSON texts a sender frames: a complete payload, payloads with a key
\* missing or a value of another type, JSON that is no object, and text
\* that is no JSON or no UTF-8.
TinyPayloads ==
  { <<123, 34, 116, 121, 112, 101, 34, 58, 32, 49, 44, 32, 34, 115, 101, 101, 100, 34, 58, 32, 34, 52, 49, 34, 44, 32, 34, 115, 101, 101, 100, 95, 105, 115, 95, 98, 121, 116, 101, 115, 34, 58, 32, 116, 114, 117, 101, 44, 32, 34, 112, 97, 114, 97, 109, 115, 34, 58, 32, 123, 34, 99, 111, 117, 110, 116, 34, 58, 32, 50, 125, 44, 32, 34, 111, 114, 105, 103, 95, 115, 105, 122, 101, 34, 58, 32, 50, 44, 32, 34, 104, 97, 115, 104, 34, 58, 32, 34, 120, 34, 125>>,
    <<123, 34, 116, 121, 112, 101, 34, 58, 32, 55, 44, 32, 34, 115, 101, 101, 100, 34, 58, 32, 34, 52, 49, 34, 44, 32, 34, 115, 101, 101, 100, 95, 105, 115, 95, 98, 121, 116, 101, 115, 34, 58, 32, 116, 114, 117, 101, 44, 32, 34, 112, 97, 114, 97, 109, 115, 34, 58, 32, 123, 34, 99, 111, 117, 110, 116, 34, 58, 32, 50, 125, 44, 32, 34, 111, 114, 105, 103, 95, 115, 105, 122, 101, 34, 58, 32, 50, 44, 32, 34, 104, 97, 115, 104, 34, 58, 32, 34, 120, 34, 125>>,
    <<123, 34, 116, 121, 112, 101, 34, 58, 32, 34, 49, 34, 44, 32, 34, 115, 101, 101, 100, 34, 58, 32, 34, 52, 49, 34, 44, 32, 34, 115, 101, 101, 100, 95, 105, 115, 95, 98, 121, 116, 101, 115, 34, 58, 32, 116, 114, 117, 101, 44, 32, 34, 112, 97, 114, 97, 109, 115, 34, 58, 32, 123, 125, 44, 32, 34, 111, 114, 105, 103, 95, 115, 105, 122, 101, 34, 58, 32, 50, 44, 32, 34, 104, 97, 115, 104, 34, 58, 32, 34, 120, 34, 125>>,
    <<123, 34, 116, 121, 112, 101, 34, 58, 32, 49, 44, 32, 34, 115, 101, 101, 100, 34, 58, 32, 34, 122, 122, 34, 44, 32, 34, 115, 101, 101, 100, 95, 105, 115, 95, 98, 121, 116, 101, 115, 34, 58, 32, 116, 114, 117, 101, 44, 32, 34, 112, 97, 114, 97, 109, 115, 34, 58, 32, 123, 125, 44, 32, 34, 111, 114, 105, 103, 95, 115, 105, 122, 101, 34, 58, 32, 50, 44, 32, 34, 104, 97, 115, 104, 34, 58, 32, 34, 120, 34, 125>>,
    <<123, 34, 116, 121, 112, 101, 34, 58, 32, 50, 44, 32, 34, 115, 101, 101, 100, 34, 58, 32, 53, 44, 32, 34, 115, 101, 101, 100, 95, 105, 115, 95, 98, 121, 116, 101, 115, 34, 58, 32, 116, 114, 117, 101, 44, 32, 34, 112, 97, 114, 97, 109, 115, 34, 58, 32, 123, 125, 44, 32, 34, 111, 114, 105, 103, 95, 115, 105, 122, 101, 34, 58, 32, 50, 44, 32, 34, 104, 97, 115, 104, 34, 58, 32, 34, 120, 34, 125>>,
    <<123, 34, 116, 121, 112, 101, 34, 58, 32, 50, 44, 32, 34, 115, 101, 101, 100, 34, 58, 32, 123, 34, 116, 121, 112, 101, 34, 58, 32, 34, 112, 114, 105, 109, 101, 115, 34, 44, 32, 34, 99, 111, 117, 110, 116, 34, 58, 32, 50, 125, 44, 32, 34, 112, 97, 114, 97, 109, 115, 34, 58, 32, 123, 125, 44, 32, 34, 111, 114, 105, 103, 95, 115, 105, 122, 101, 34, 58, 32, 51, 44, 32, 34, 104, 97, 115, 104, 34, 58, 32, 34, 120, 34, 125>>,
    <<123, 34, 116, 121, 112, 101, 34, 58, 32, 51, 44, 32, 34, 115, 101, 101, 100, 34, 58, 32, 34, 70, 34, 44, 32, 34, 115, 101, 101, 100, 95, 105, 115, 95, 98, 121, 116, 101, 115, 34, 58, 32, 102, 97, 108, 115, 101, 44, 32, 34, 112, 97, 114, 97, 109, 115, 34, 58, 32, 123, 125, 44, 32, 34, 111, 114, 105, 103, 95, 115, 105, 122, 101, 34, 58, 32, 49, 125>>,
    <<123, 34, 116, 121, 112, 101, 34, 58, 32, 49, 46, 48, 44, 32, 34, 115, 101, 101, 100, 34, 58, 32, 110, 117, 108, 108, 44, 32, 34, 115, 101, 101, 100, 95, 105, 115, 95, 98, 121, 116, 101, 115, 34, 58, 32, 48, 44, 32, 34, 112, 97, 114, 97, 109, 115, 34, 58, 32, 110, 117, 108, 108, 44, 32, 34, 111, 114, 105, 103, 95, 115, 105, 122, 101, 34, 58, 32, 110, 117, 108, 108, 44, 32, 34, 104, 97, 115, 104, 34, 58, 32, 110, 117, 108, 108, 125>>,
    <<123, 34, 115, 101, 101, 100, 34, 58, 32, 34, 52, 49, 34, 125>>,
    <<123, 125>>, <<91, 93>>, <<110, 117, 108, 108>>, <<49>>, <<34, 115, 101, 101, 100, 34>>, <<123, 34, 116, 121, 112, 101, 34, 58, 32, 49, 44>>, << >>, <<255>> }

\* The first bytes a sender writes where the magic belongs.
WireMagics == { MAGIC, <<115, 101, 109, 99>>, <<83, 69, 77>>, << >> }

\* The bytes a sender writes where the version belongs.
WireVersions == { <<VERSION>>, <<0>>, <<2>>, << >> }

\* The bytes a sender writes where the length belongs, for payload p: the
\* length of p, one more, one less (for a non-empty p), two bytes, nothing.
WireLengths(p) ==
  { PackLE32(Len(p)), PackLE32(Len(p) + 1), PackLE32(Max(Len(p), 1) - 1), <<1, 0>>, << >> }

FreeWires ==
  UNION { { m \o v \o l \o p : l \in WireLengths(p) } :
          <<m, v, p>> \in WireMagics \X WireVersions \X TinyPayloads }

\* wire = a blob from a sender.
Receive(w) ==
  /\ IsNone(data) /\ IsNone(wire)
  /\ wire' = JBytes(w)
  /\ tamper' = "received"
  /\ UNCHANGED <<GENERATORS, codecs, KNOWN_LSYSTEMS, data, container, again, parsed, out, outParsed, other, call, search, threads>>

\* One of the first four bytes replaced.
TamperMagic(i, b) ==
  /\ wire.t = "bytes" /\ tamper = "none" /\ IsNone(parsed)
  /\ wire.v[i] # b
  /\ wire' = JBytes([wire.v EXCEPT ![i] = b])
  /\ tamper' = "magic"
  /\ UNCHANGED <<GENERATORS, codecs, KNOWN_LSYSTEMS, data, container, again, parsed, out, outParsed, other, call, search, threads>>

\* The version byte replaced.
TamperVersion(v) ==
  /\ wire.t = "bytes" /\ tamper = "none" /\ IsNone(parsed)
  /\ wire.v[5] # v
  /\ wire' = JBytes([wire.v EXCEPT ![5] = v])
  /\ tamper' = "version"
  /\ UNCHANGED <<GENERATORS, codecs, KNOWN_LSYSTEMS, data, container, again, parsed, out, outParsed, other, call, search, threads>>

\* The blob cut to its first n bytes.
Truncate(n) ==
  /\ wire.t = "bytes" /\ tamper = "none" /\ IsNone(parsed)
  /\ n < Len(wire.v)
  /\ wire' = JBytes(Slice(wire.v, 1, n))
  /\ tamper' = "truncated"
  /\ UNCHANGED <<GENERATORS, codecs, KNOWN_LSYSTEMS, data, container, again, parsed, out, outParsed, other, call, search, threads>>

\* The last k bytes of the blob removed.
DropTail(k) ==
  /\ wire.t = "bytes" /\ tamper = "none" /\ IsNone(parsed)
  /\ k <= Len(wire.v)
  /\ wire' = JBytes(Slice(wire.v, 1, Len(wire.v) - k))
  /\ tamper' = "truncated"
  /\ UNCHANGED <<GENERATORS, codecs, KNOWN_LSYSTEMS, data, container, again, parsed, out, outParsed, other, call, search, threads>>

\* The length field rewritten to the payload's length plus delta.
TamperLength(delta) ==
  /\ wire.t = "bytes" /\ tamper = "none" /\ IsNone(parsed)
  /\ Len(wire.v) - 9 + delta >= 0
  /\ wire' = JBytes(Slice(wire.v, 1, 5) \o PackLE32(Len(wire.v) - 9 + delta)
                    \o Slice(wire.v, 10, Len(wire.v)))
  /\ tamper' = "length"
  /\ UNCHANGED <<GENERATORS, codecs, KNOWN_LSYSTEMS, data, container, again, parsed, out, outParsed, other, call, search, threads>>

\* Bytes appended after the payload.
AppendTrailing(extra) ==
  /\ wire.t = "bytes" /\ tamper = "none" /\ IsNone(parsed)
  /\ wire' = JBytes(wire.v \o extra)
  /\ tamper' = "trailing"
  /\ UNCHANGED <<GENERATORS, codecs, KNOWN_LSYSTEMS, data, container, again, parsed, out, outParsed, other, call, search, threads>>

\* The bytes written over a magic or version byte.
TamperBytes == {0, 2, 83, 255}

\* The lengths a blob is cut to: inside the magic, at the version, inside
\* the length field, at and after the start of the payload.
TruncateLengths == {0, 3, 4, 5, 8, 9, 10}

\* The changes made to the length field.
LengthDeltas == {-2, -1, 1, 100}

\* The bytes appended to a blob.
TrailingBytes == { <<0>>, <<32>>, <<125>>, <<255, 255>> }

\* A receiver that parses blobs from to_bytes, the same blobs damaged in
\* one place, and blobs from a sender.
NextParse ==
  \/ \E d \in Inputs : Compress(d)
  \/ ToBytes
  \/ \E w \in FreeWires : Receive(w)
  \/ \E i \in 1..4, b \in TamperBytes : TamperMagic(i, b)
  \/ \E v \in TamperBytes : TamperVersion(v)
  \/ \E n \in TruncateLengths : Truncate(n)
  \/ \E k \in 1..2 : DropTail(k)
  \/ \E delta \in LengthDeltas : TamperLength(delta)
  \/ \E extra \in TrailingBytes : AppendTrailing(extra)
  \/ FromBytes

SpecParse == Init /\ [][NextParse]_vars


(***************************************************************************)
(* Properties.                                                             *)
(***************************************************************************)
\* C1: round trip -- whenever decompress has been called on the container
\* compress returned for a blob, it returned exactly that blob (and did not
\* raise).
C1_RoundTrip == ~IsNone(out) /\ tamper = "none" => JEq(out, data)

\* C2: self-verification -- every container compress returned regenerates,
\* from its kind, seed and parameters, to the blob it was made from.
C2_SelfVerified ==
  IsContainer(container) /\ ~IsNone(data) /\ tamper = "none"
    => JEq(Regenerate(container), data)

\* C3: compress is total -- after every call of compress, on any blob, the
\* result is a container: never an exception, never nothing.
C3_CompressTotal ==
  /\ ~IsNone(data) => IsContainer(container)
  /\ ~IsNone(again) => IsContainer(again)

C3_Witness ==
  /\ ~IsNone(data) /\ data.v = <<255>>
  /\ IsContainer(container) /\ container.compression_type = PATTERN_REPEAT
  /\ IsContainer(again)

\* C4: best candidate -- the container compress returned serializes to no
\* more bytes than any candidate (repeated pattern, catalog L-system, the
\* sequence family, dictionary coding, raw storage) that regenerates the
\* blob.
C4_SmallestCandidate ==
  IsContainer(container) /\ ~IsNone(data) /\ tamper = "none" =>
    \A c \in { try_pattern_compression(data.v),
               Caught(LSystemStrategy(data.v, JInt(Len(data.v)), JStr(Sha256Hex32(data.v)),
                                      KNOWN_LSYSTEMS)),
               Caught(SequenceStrategy(data.v, JInt(Len(data.v)), JStr(Sha256Hex32(data.v)))),
               try_dictionary_compression(data.v, JInt(Len(data.v)), JStr(Sha256Hex32(data.v))),
               RawData(data.v, JInt(Len(data.v)), JStr(Sha256Hex32(data.v))) } :
      IsContainer(c) /\ JEq(Regenerate(c), data)
        => compressed_size(container) <= compressed_size(c)

C6_DecompressIntegrity ==
  ~IsNone(out) =>
    /\ out.t = "bytes" \/ IsRaise(out)
    /\ out.t = "bytes" =>
         /\ container.original_hash.t = "str"
         /\ container.original_hash.v = Sha256Hex32(out.v)
    /\ container.compression_type \in {FRACTAL_IFS, HYBRID} => IsRaise(out)
    /\ ( /\ container.compression_type = SEQUENCE
         /\ container.seed.t = "dict"
         /\ HasKey(container.seed, K_type)
         /\ ~( /\ Get(container.seed, K_type).t = "str"
               /\ Get(container.seed, K_type).v
                    \in {T_arithmetic, T_geometric, T_fibonacci, T_powers, T_primes} ) )
       => IsRaise(out)

C6_Witness ==
  /\ tamper = "built" /\ out.t = "bytes"
  /\ container.compression_type = SEQUENCE
  /\ out.v = <<50, 44, 51, 44, 53, 44, 55>>

\* C7: from_bytes raises for every blob whose first four bytes are not
\* 'SEMC' and for every blob whose fifth byte is not 1.
C7_BadMagicOrVersionRaises ==
  /\ wire.t = "bytes" /\ ~IsNone(parsed)
  /\ \/ Slice(wire.v, 1, 4) # <<83, 69, 77, 67>>
     \/ (Len(wire.v) >= 5 /\ wire.v[5] # 1)
  => IsRaise(parsed)

C7_Witness ==
  /\ tamper = "version" /\ IsRaise(parsed)
  /\ Slice(wire.v, 1, 4) = <<83, 69, 77, 67>> /\ wire.v[5] = 2

\* C8: from_bytes raises for every blob shorter than its header and for
\* every blob whose length field is not the number of bytes after the
\* 9-byte header.
C8_LengthMismatchRaises ==
  /\ wire.t = "bytes" /\ ~IsNone(parsed)
  /\ \/ Len(wire.v) < 9
     \/ Slice(wire.v, 6, 9) # PackLE32(Len(wire.v) - 9)
  => IsRaise(parsed)

\* C9: wire layout -- to_bytes of a container is 'SEMC', the byte 1, the
\* number of payload bytes in 4 bytes little-endian, and the payload; a
\* bytes seed stands in the payload as its lower-case hex text, flagged by
\* "seed_is_bytes": true.
C9_WireLayout ==
  wire.t = "bytes" /\ tamper = "none" /\ IsContainer(container) =>
    /\ Len(wire.v) >= 9
    /\ SubSeq(wire.v, 1, 4) = <<83, 69, 77, 67>>
    /\ wire.v[5] = 1
    /\ wire.v[6] = (Len(wire.v) - 9) % 256
    /\ wire.v[7] = ((Len(wire.v) - 9) \div 256) % 256
    /\ wire.v[8] = ((Len(wire.v) - 9) \div 65536) % 256
    /\ wire.v[9] = (Len(wire.v) - 9) \div 16777216
    /\ container.seed.t = "bytes" =>
         LET hex == <<48, 49, 50, 51, 52, 53, 54, 55, 56, 57, 97, 98, 99, 100, 101, 102>>
             field == <<34, 115, 101, 101, 100, 34, 58, 32, 34>>
                      \o Flatten([i \in 1..Len(container.seed.v) |->
                                    << hex[(container.seed.v[i] \div 16) + 1],
                                       hex[(container.seed.v[i] % 16) + 1] >>])
                      \o <<34, 44, 32, 34, 115, 101, 101, 100, 95, 105, 115, 95, 98, 121, 116, 101, 115, 34, 58, 32, 116, 114, 117, 101>>
         IN \E i \in 10..Len(wire.v) : SubSeq(wire.v, i, i + Len(field) - 1) = field

C9_Witness ==
  /\ wire.t = "bytes" /\ IsContainer(container)
  /\ container.seed.t = "bytes" /\ container.seed.v = <<255, 44>>

\* C10: serialization round trip -- from_bytes(c.to_bytes()) of a container
\* from compress has the same kind, seed, generator parameters, original
\* size and digest as c, and decompress of it ends as decompress(c) does.
C10_SerializationRoundTrip ==
  /\ ~IsNone(parsed) /\ tamper = "none" =>
       /\ IsContainer(parsed)
       /\ parsed.compression_type = container.compression_type
       /\ JEq(parsed.seed, container.seed)
       /\ JEq(parsed.generator_params, container.generator_params)
       /\ JEq(parsed.original_size, container.original_size)
       /\ JEq(parsed.original_hash, container.original_hash)
  /\ ~IsNone(out) /\ ~IsNone(outParsed) /\ tamper = "none" => JEq(out, outParsed)

C10_Witness ==
  /\ IsContainer(parsed) /\ parsed.compression_type = DICTIONARY
  /\ out.t = "bytes" /\ outParsed.t = "bytes"

(***************************************************************************)
(* One call of a module-level detector on its own, outside compress        *)
(* (real_compressor.py:111-254, 541-548).                                  *)
(***************************************************************************)
MaxDetectLen == 6

DetectAlphabet == {65, 66}

\* The byte strings handed to find_repeating_pattern.
DetectInputs == SeqsUpTo(DetectAlphabet, MaxDetectLen)

Called(f, arg, result) == [t |-> "call", f |-> f, arg |-> arg, result |-> result]

IsCall(f) == call.t = "call" /\ call.f = f

\* find_repeating_pattern(d)
FindRepeatingPattern(d) ==
  /\ IsNone(call) /\ IsNone(data)
  /\ call' = Called("find_repeating_pattern", d, find_repeating_pattern(d))
  /\ UNCHANGED <<GENERATORS, codecs, KNOWN_LSYSTEMS, data, container, again, other, wire, parsed, out, outParsed,
                 tamper, search, threads>>

\* The lengths L, 1 <= L <= n div 2, that divide n and for which d is its
\* first L bytes over and over, byte by byte.
Tilings(d) ==
  {L \in 1..(Len(d) \div 2) :
     Len(d) % L = 0 /\ \A i \in 1..Len(d) : d[i] = d[((i - 1) % L) + 1]}

\* C11: find_repeating_pattern(data) returns a pair exactly when some
\* length L from 1 to n div 2 divides n and data is its first L bytes
\* repeated n/L times; the pair is then the first L bytes for the smallest
\* such L with the count n/L >= 2, and the pattern repeated count times is
\* data; in every other case (empty data, a partial final repeat) it
\* returns None.
C11_RepeatingPattern ==
  IsCall("find_repeating_pattern") =>
    /\ IsNone(call.result) <=> Tilings(call.arg) = {}
    /\ ~IsNone(call.result) =>
         /\ Len(call.result.v[1]) \in Tilings(call.arg)
         /\ \A L \in Tilings(call.arg) : Len(call.result.v[1]) <= L
         /\ call.result.v[1] = SubSeq(call.arg, 1, Len(call.result.v[1]))
         /\ call.result.v[2] = Len(call.arg) \div Len(call.result.v[1])
         /\ call.result.v[2] >= 2
         /\ Repeat(call.result.v[1], call.result.v[2]) = call.arg

\* ABABAB was recognized as AB three times, although ABA ABA... is not
\* its tiling and A is not its pattern.
C11_Witness ==
  /\ IsCall("find_repeating_pattern")
  /\ call.arg = <<65, 66, 65, 66, 65, 66>>
  /\ call.result = Found(<<<<65, 66>>, 3>>)

MaxListLen == 4

DetectTerms == {-7, 0, 7, 14, 15, 21}

\* 0..69 with one term off by one, in the middle and at the end.
DeviatingLists ==
  { [i \in 1..70 |-> IF i = 36 THEN 36 ELSE i - 1],
    [i \in 1..70 |-> IF i = 70 THEN 70 ELSE i - 1] }

\* The integer lists handed to the sequence detectors.
DetectLists == SeqsUpTo(DetectTerms, MaxListLen) \cup NumberLists \cup DeviatingLists

\* find_arithmetic_sequence(X), alone or on the numbers of the blob that
\* was compressed.
FindArithmeticSequence(X) ==
  /\ IsNone(call)
  /\ IsNone(data) \/ (data.t = "bytes" /\ data.v = NumberText(X, <<CH_COMMA>>))
  /\ call' = Called("find_arithmetic_sequence", X, find_arithmetic_sequence(X))
  /\ UNCHANGED <<GENERATORS, codecs, KNOWN_LSYSTEMS, data, container, again, other, wire, parsed, out, outParsed,
                 tamper, search, threads>>

\* Some term of X is not its predecessor plus the first difference.
Deviates(X) == \E i \in 1..(Len(X) - 1) : X[i + 1] - X[i] # X[2] - X[1]

\* A SEQUENCE container whose seed says 'type': 'arithmetic'.
IsArithmeticContainer(c) ==
  /\ IsContainer(c)
  /\ c.compression_type = SEQUENCE
  /\ c.seed.t = "dict"
  /\ HasKey(c.seed, K_type)
  /\ JEq(Get(c.seed, K_type), JStr(T_arithmetic))

\* C12: find_arithmetic_sequence(X) returns (X[0], X[1] - X[0], len(X))
\* exactly when X has two terms or more and no term deviates from the first
\* difference, and None otherwise; compress of the text of a list with a
\* deviating term does not return an arithmetic sequence container.
C12_ArithmeticExact ==
  /\ IsCall("find_arithmetic_sequence") =>
       IF Len(call.arg) >= 2 /\ ~Deviates(call.arg)
       THEN call.result = Found(<<call.arg[1], call.arg[2] - call.arg[1], Len(call.arg)>>)
       ELSE IsNone(call.result)
  /\ \A X \in DetectLists, sep \in {<<CH_COMMA>>, <<CH_COMMA, 32>>} :
       data.t = "bytes" /\ data.v = NumberText(X, sep) /\ Deviates(X)
         => ~IsArithmeticContainer(container)

\* "0,7,15,21" was compressed and did not become an arithmetic sequence,
\* and the detector rejected 0, 7, 15, 21.
C12_Witness ==
  /\ data.t = "bytes" /\ data.v = NumberText(<<0, 7, 15, 21>>, <<CH_COMMA>>)
  /\ IsContainer(container) /\ ~IsArithmeticContainer(container)
  /\ IsCall("find_arithmetic_sequence")
  /\ call.arg = <<0, 7, 15, 21>>
  /\ IsNone(call.result)

MaxParseLen == 4

\* '1', ',', ' ', 'x', '-', '_' and the byte 0xFF.
ParseAlphabet == {49, CH_COMMA, 32, 120, CH_MINUS, CH_UNDERSCORE, 255}

\* "0,1,...,69" with the token 35 replaced by 'x'.
BrokenMiddle ==
  Join([i \in 1..70 |-> IF i = 36 THEN <<120>> ELSE IntToStr(i - 1)], <<CH_COMMA>>)

\* "0,1,...,69" ending in ",x", in ",", in ".5" and in the byte 0xFF.
BrokenTexts ==
  { BrokenMiddle }
    \cup { NumberText([i \in 1..70 |-> i - 1], <<CH_COMMA>>) \o tail :
             tail \in {<<CH_COMMA, 120>>, <<CH_COMMA>>, <<CH_DOT, 53>>, <<255>>} }

\* The blobs compress is given next to the detector calls: the number
\* texts, the texts of the deviating lists, the broken texts.
SequenceTexts ==
  NumberInputs \cup {NumberText(X, <<CH_COMMA>>) : X \in DeviatingLists} \cup BrokenTexts

\* The blobs handed to _parse_numbers.
ParseInputs == SeqsUpTo(ParseAlphabet, MaxParseLen) \cup BrokenTexts

\* SemanticCompressor()._parse_numbers(d), alone or on the blob that was
\* compressed.
ParseNumbers(d) ==
  /\ IsNone(call)
  /\ IsNone(data) \/ (data.t = "bytes" /\ data.v = d)
  /\ call' = Called("_parse_numbers", d, parse_numbers(d))
  /\ UNCHANGED <<GENERATORS, codecs, KNOWN_LSYSTEMS, data, container, again, other, wire, parsed, out, outParsed,
                 tamper, search, threads>>

\* The first positions of the tokens of d: 1 and the position after every
\* comma.
TokenStarts(d) == {1} \cup {i + 1 : i \in {j \in 1..Len(d) : d[j] = CH_COMMA}}

\* The token of d that starts at s: up to the next comma or the end.
TokenAt(d, s) ==
  SubSeq(d, s, CHOOSE e \in (s - 1)..Len(d) :
                 /\ e = Len(d) \/ d[e + 1] = CH_COMMA
                 /\ \A i \in s..e : d[i] # CH_COMMA)

\* int() accepts tok: whitespace, an optional sign, then digits, single
\* underscores between digits allowed, then whitespace.
IsIntegerToken(tok) ==
  \E a \in 1..Len(tok), b \in 1..Len(tok) :
    /\ a <= b
    /\ \A i \in 1..(a - 1) : IsPySpace(tok[i])
    /\ \A i \in (b + 1)..Len(tok) : IsPySpace(tok[i])
    /\ \E first \in {IF tok[a] \in {CH_PLUS, CH_MINUS} THEN a + 1 ELSE a} :
         /\ first <= b
         /\ IsDigit(tok[first]) /\ IsDigit(tok[b])
         /\ \A i \in (first + 1)..b :
              IsDigit(tok[i]) \/ (tok[i] = CH_UNDERSCORE /\ IsDigit(tok[i - 1]))

\* d is not UTF-8, or one of its tokens is no integer.
HasBadToken(d) ==
  \/ \E i \in 1..Len(d) : d[i] >= 128
  \/ \E s \in TokenStarts(d) : ~IsIntegerToken(TokenAt(d, s))

\* C20: _parse_numbers returns None when the blob is not UTF-8 or any one
\* of its comma-separated tokens is no integer, and one integer per token
\* otherwise; compress of a blob with such a token returns no SEQUENCE
\* container, so no sequence is recognized from a part of the tokens.
C20_AllOrNothing ==
  /\ IsCall("_parse_numbers") =>
       IF HasBadToken(call.arg) THEN IsNone(call.result)
       ELSE /\ call.result.t = "list"
            /\ Len(call.result.v) = Cardinality(TokenStarts(call.arg))
  /\ data.t = "bytes" /\ IsContainer(container) /\ HasBadToken(data.v)
       => container.compression_type # SEQUENCE

\* "0,1,...,34,x,36,...,69" was compressed into something that is no
\* sequence, and _parse_numbers returned None for it.
C20_Witness ==
  /\ data.t = "bytes" /\ data.v = BrokenMiddle
  /\ IsContainer(container) /\ container.compression_type # SEQUENCE
  /\ IsCall("_parse_numbers") /\ call.arg = BrokenMiddle
  /\ IsNone(call.result)

\* A caller that makes one call of a detector or of the parser, alone or
\* after it compressed a number text.
NextDetect ==
  \/ \E d \in DetectInputs : FindRepeatingPattern(d)
  \/ \E X \in DetectLists : FindArithmeticSequence(X)
  \/ \E d \in ParseInputs : ParseNumbers(d)
  \/ \E d \in SequenceTexts : IsNone(call) /\ Compress(d)

SpecDetect == Init /\ [][NextDetect]_vars

(***************************************************************************)
(* The L-system search as the loop it is: find_lsystem over the catalog    *)
(* (real_compressor.py:281-296) and _matches_lsystem_with_depth over the   *)
(* one system it is handed (meaning_compressor.py:410-423), one turn of    *)
(* the inner loop, that is one expansion, per step.                        *)
(***************************************************************************)
\* range(1, 20) in _matches_lsystem_with_depth.
MATCH_MAX_DEPTH == 19

\* A text of 'A's that the 14th dragon expansion does not outgrow.
LongTextLen == 32767

\* The texts searched for: the empty text, an axiom, expansions, an expansion
\* with its last character replaced, a long text that is no expansion.
SearchTexts ==
  { << >>, <<70>>,
    generate_lsystem(InitialLSystems[1].axiom, InitialLSystems[1].rules, 2),
    generate_lsystem(InitialLSystems[2].axiom, InitialLSystems[2].rules, 1),
    generate_lsystem(InitialLSystems[3].axiom, InitialLSystems[3].rules, 3),
    generate_lsystem(InitialLSystems[4].axiom, InitialLSystems[4].rules, 2),
    NearMiss(3),
    Repeat(<<65>>, LongTextLen) }

\* The systems _matches_lsystem_with_depth is handed: GENERATORS[KOCH],
\* [SIERPINSKI], [DRAGON] (meaning_compressor.py:78-93, the first three of
\* the catalog), and a caller's system whose rules rewrite nothing.
MatchSystems ==
  { InitialLSystems[1], InitialLSystems[2], InitialLSystems[3],
    [name |-> "still", axiom |-> <<70>>, rules |-> JDict(<< >>)] }

MatchTexts == { << >>, <<71>>, generate_lsystem(InitialLSystems[1].axiom, InitialLSystems[1].rules, 2) }

\* A search at the top of its first turn; lengths[k] lists the lengths of
\* the strings generated from the k-th system so far, matched is the depth
\* of the match (0 while there is none).
Searching(who, text, systems, cap) ==
  [t |-> "search", who |-> who, text |-> text, systems |-> systems, cap |-> cap,
   k |-> 1, iterations |-> 1, lengths |-> [j \in 1..Len(systems) |-> << >>],
   matched |-> 0, pc |-> IF Len(systems) = 0 THEN "done" ELSE "loop"]

\* A loop that goes on until the string is longer than three times the
\* text.
TooLongThrice(generated, text) == Len(generated) > Len(text) * 3

\* if len(generated) > len(text) * 2: break
TooLong(generated, text) == Len(generated) > Len(text) * 2

\* The end of the inner loop: on to the next system, or return None.
NextSystem(s) ==
  IF s.k = Len(s.systems) THEN [s EXCEPT !.pc = "done"]
  ELSE [s EXCEPT !.k = @ + 1, !.iterations = 1]

\* What the finished search returns: (axiom, rules, iterations) in
\* find_lsystem, depth in _matches_lsystem_with_depth, None without a match.
Returned(s) ==
  IF s.matched = 0 THEN JNone
  ELSE IF s.who = "find_lsystem"
       THEN Found(<<s.systems[s.k].axiom, s.systems[s.k].rules, s.matched>>)
       ELSE JInt(s.matched)

\* One turn of the inner loop with the string it generated.
Turned(s, generated) ==
  IF generated = s.text THEN [s EXCEPT !.matched = s.iterations, !.pc = "done"]
  ELSE IF TooLong(generated, s.text) \/ s.iterations = s.cap THEN NextSystem(s)
  ELSE [s EXCEPT !.iterations = @ + 1]

Turn(s) ==
  Once(LAMBDA generated :
         Turned([s EXCEPT !.lengths[s.k] = Append(@, Len(generated))], generated),
       generate_lsystem(s.systems[s.k].axiom, s.systems[s.k].rules, s.iterations))

\* find_lsystem(text) is called.
CallFindLsystem(text) ==
  /\ IsNone(search)
  /\ search' = Searching("find_lsystem", text, KNOWN_LSYSTEMS, LSYSTEM_MAX_ITERATIONS)
  /\ UNCHANGED <<GENERATORS, codecs, KNOWN_LSYSTEMS, data, container, again, other, wire, parsed, out, outParsed,
                 tamper, call, threads>>

\* MeaningCompressor()._matches_lsystem_with_depth(text, lsystem) is called.
CallMatchesLsystem(text, lsystem) ==
  /\ IsNone(search)
  /\ search' = Searching("_matches_lsystem_with_depth", text, <<lsystem>>, MATCH_MAX_DEPTH)
  /\ UNCHANGED <<GENERATORS, codecs, KNOWN_LSYSTEMS, data, container, again, other, wire, parsed, out, outParsed,
                 tamper, call, threads>>

\* One turn of the loop of find_lsystem.
FindLsystemTurn ==
  /\ search.t = "search" /\ search.who = "find_lsystem" /\ search.pc = "loop"
  /\ search' = Turn(search)
  /\ UNCHANGED <<GENERATORS, codecs, KNOWN_LSYSTEMS, data, container, again, other, wire, parsed, out, outParsed,
                 tamper, call, threads>>

\* One turn of the loop of _matches_lsystem_with_depth.
MatchesLsystemTurn ==
  /\ search.t = "search" /\ search.who = "_matches_lsystem_with_depth" /\ search.pc = "loop"
  /\ search' = Turn(search)
  /\ UNCHANGED <<GENERATORS, codecs, KNOWN_LSYSTEMS, data, container, again, other, wire, parsed, out, outParsed,
                 tamper, call, threads>>

NextSearch ==
  \/ \E text \in SearchTexts : CallFindLsystem(text)
  \/ \E text \in MatchTexts, lsystem \in MatchSystems : CallMatchesLsystem(text, lsystem)
  \/ FindLsystemTurn
  \/ MatchesLsystemTurn

SpecSearch == Init /\ [][NextSearch]_vars

\* A call that was started runs on: the loops are straight-line code of one
\* thread.
SpecSearchFair == SpecSearch /\ WF_vars(FindLsystemTurn) /\ WF_vars(MatchesLsystemTurn)

SearchStarted == search.t = "search"

SearchDone == search.t = "search" /\ search.pc = "done"

\* The expansions made so far keep to the bounds: at most cap per system,
\* none after a string longer than twice the text, none after a match; and
\* a finished search reports a match only for a text the reported system
\* expands to at the reported depth, and what find_lsystem returns.
SearchBounded ==
  SearchStarted =>
    /\ \A k \in 1..Len(search.systems) :
         /\ Len(search.lengths[k]) <= search.cap
         /\ \A i \in 1..(Len(search.lengths[k]) - 1) :
              search.lengths[k][i] <= 2 * Len(search.text)
         /\ k > search.k => search.lengths[k] = << >>
    /\ search.cap = IF search.who = "find_lsystem" THEN 14 ELSE 19
    /\ SearchDone /\ search.matched = 0 =>
         \A k \in 1..Len(search.systems) : \A d \in 1..Len(search.lengths[k]) :
           search.lengths[k][d] # Len(search.text)
             \/ generate_lsystem(search.systems[k].axiom, search.systems[k].rules, d)
                  # search.text
    /\ SearchDone /\ search.matched # 0 =>
         /\ search.matched = Len(search.lengths[search.k])
         /\ generate_lsystem(search.systems[search.k].axiom, search.systems[search.k].rules,
                             search.matched) = search.text
    /\ SearchDone /\ search.who = "find_lsystem" =>
         JEq(Returned(search), find_lsystem(search.text, search.systems))

\* C13: the L-system search ends for every text; for each system it makes
\* at most 14 expansions in find_lsystem and 19 in
\* _matches_lsystem_with_depth, and none after the first string longer than
\* twice the text; a text that is no expansion of a system is reported as
\* no match.
C13_BoundedSearch == []SearchBounded /\ (SearchStarted ~> SearchDone)

\* find_lsystem finished a long text without a match: the dragon system
\* was expanded 14 times, none of its strings longer than twice the text,
\* and the other systems were left early.
C13_Witness ==
  /\ SearchDone /\ search.who = "find_lsystem" /\ search.matched = 0
  /\ Len(search.lengths[3]) = 14
  /\ search.lengths[3][14] <= 2 * Len(search.text)
  /\ Len(search.lengths[1]) < 14
  /\ search.lengths[1][Len(search.lengths[1])] > 2 * Len(search.text)

(***************************************************************************)
(* Recognition by compress (real_compressor.py:311-366).                   *)
(***************************************************************************)
\* Every term of X from the third on is the sum of the two before it.
IsFibonacciLike(X) ==
  Len(X) >= 3 /\ \A i \in 3..Len(X) : X[i] = X[i - 1] + X[i - 2]

\* The terms of X have one ratio, X[2] / X[1].
IsGeometric(X) ==
  Len(X) >= 2 /\ X[1] # 0 /\ \A i \in 1..(Len(X) - 1) : X[i + 1] * X[1] = X[i] * X[2]

\* A SEQUENCE container whose seed is {'type': 'fibonacci', 'a': a, 'b': b,
\* 'count': count}.
IsFibonacciContainer(c, a, b, count) ==
  /\ IsContainer(c)
  /\ c.compression_type = SEQUENCE
  /\ c.seed.t = "dict"
  /\ \A k \in {K_type, K_a, K_b, K_count} : HasKey(c.seed, k)
  /\ JEq(Get(c.seed, K_type), JStr(T_fibonacci))
  /\ JEq(Get(c.seed, K_a), JInt(a))
  /\ JEq(Get(c.seed, K_b), JInt(b))
  /\ JEq(Get(c.seed, K_count), JInt(count))

\* C14: compress of the canonical text of a Fibonacci-like list of three
\* terms or more that is neither arithmetic nor geometric returns a
\* fibonacci sequence container with the first two terms and the number of
\* terms.
C14_FibonacciRecognized ==
  \A X \in NumberLists :
    /\ data.t = "bytes" /\ data.v = NumberText(X, <<CH_COMMA>>)
    /\ IsContainer(container)
    /\ IsFibonacciLike(X) /\ Deviates(X) /\ ~IsGeometric(X)
    => IsFibonacciContainer(container, X[1], X[2], Len(X))

\* ---------------------------------------------------------------------
\* Recognition of catalog expansions by compress.

\* TRUE iff text is the iterations-th expansion of the k-th catalog system.
\* The expansions grow with the depth, so the scan from depth 1 stops at
\* the first one that is at least as long as the text.
RECURSIVE IsExpansionFrom(_, _, _, _)
IsExpansionFrom(text, k, iterations, d) ==
  Once(LAMBDA length :
         IF length < Len(text) /\ d < iterations
         THEN IsExpansionFrom(text, k, iterations, d + 1)
         ELSE d = iterations /\ length = Len(text) /\ text = Expansion(k, d),
       LSystemLength(InitialLSystems[k].axiom, InitialLSystems[k].rules, d))

IsExpansion(text, k, iterations) == IsExpansionFrom(text, k, iterations, 1)

IsLSystemContainer(c, k, iterations) ==
  /\ c.compression_type = LSYSTEM
  /\ JEq(c.seed, JStr(InitialLSystems[k].axiom))
  /\ JEq(c.generator_params,
         JDict(<< <<K_rules, InitialLSystems[k].rules>>, <<K_iterations, JInt(iterations)>> >>))

\* C15: for every catalog L-system and every iteration count n from 5 up
\* to the search bound, compress of the text of the n-th expansion returns
\* an LSYSTEM container with that system's axiom, its rules and
\* iterations = n.
C15_LSystemRecognized ==
  \A k \in 1..Len(InitialLSystems) :
    \A n \in 5..LSYSTEM_MAX_ITERATIONS :
      /\ data.t = "bytes"
      /\ IsContainer(container)
      /\ IsExpansion(data.v, k, n)
      => IsLSystemContainer(container, k, n)

\* ---------------------------------------------------------------------
\* Size of the raw fallback.

\* c is what compress returns for data when every strategy came back
\* empty: the data itself under PATTERN_REPEAT with count 1.
IsRawFallback(c, d) ==
  /\ c.compression_type = PATTERN_REPEAT
  /\ JEq(c.seed, JBytes(d))
  /\ JEq(c.generator_params, JDict(<< <<K_count, JInt(1)>> >>))

\* The serialized size of the raw container of the empty input: the
\* header and the payload fields around an empty seed.
RawHeaderSize == compressed_size(compress(<< >>, InitialLSystems))

\* C16: when compress stores B verbatim, the serialized container is
\* larger than B by a fixed header overhead only: container size - len(B)
\* does not grow with len(B), beyond the decimal digits of original_size.
C16_RawOverheadFixed ==
  /\ data.t = "bytes"
  /\ IsContainer(container)
  /\ IsRawFallback(container, data.v)
  => compressed_size(container) - Len(data.v)
       <= RawHeaderSize + Len(NatToStr(Len(data.v))) - 1

\* ---------------------------------------------------------------------
\* Scale runs: one compressor, data = pattern * count for growing counts
\* (scale_test, real_compressor.py:669-680; test_pattern_scale).

ScalePatterns == {<<65>>, <<65, 66>>, <<65, 66, 67>>, <<255>>}

MaxSmallCount == 10

LargeCount == 100000

\* The counts a run starts from: the small ones, and those just below a
\* count or a size with one more decimal digit.
ScaleCounts == (1..MaxSmallCount) \cup {99, 333, 499, 999}

ScaleRuns == (ScalePatterns \X ScaleCounts) \cup {<<<<65, 66>>, LargeCount>>}

\* compressed = compressor.compress(pattern * count); the loop's pattern
\* and count are kept in call, the product is passed and dropped.
ScaleCompress(pattern, count) ==
  /\ IsNone(data) /\ IsNone(container) /\ IsNone(call)
  /\ container' = compress(Repeat(pattern, count), KNOWN_LSYSTEMS)
  /\ call' = Called("scale", <<pattern, count>>, JNone)
  /\ UNCHANGED <<GENERATORS, codecs, KNOWN_LSYSTEMS, data, again, other, wire, parsed, out, outParsed, tamper, search, threads>>

\* The next turn of the loop, with one more repeat of the same pattern.
ScaleNext ==
  /\ IsCall("scale") /\ IsNone(other)
  /\ other' = compress(Repeat(call.arg[1], call.arg[2] + 1), KNOWN_LSYSTEMS)
  /\ UNCHANGED <<GENERATORS, codecs, KNOWN_LSYSTEMS, data, container, again, wire, parsed, out, outParsed, tamper, call, search, threads>>

NextScale ==
  \/ \E run \in ScaleRuns : ScaleCompress(run[1], run[2])
  \/ ScaleNext

SpecScale == Init /\ [][NextScale]_vars

\* c.ratio() > d.ratio()
RatioAbove(c, d) ==
  RatioGreater(c.original_size.v, compressed_size(c), d.original_size.v, compressed_size(d))

\* C17: for a fixed non-empty pattern p and B_N = p repeated N times, the
\* ratio of compress(B_N) is strictly increasing in N: the ratio for N + 1
\* repeats is above the ratio for N repeats, for every N >= 1.
C17_RatioGrowth ==
  IsCall("scale") /\ IsContainer(container) /\ IsContainer(other)
  => RatioAbove(other, container)

\* C18: for B = b"AB" repeated 100000 times compress returns a
\* repeated-pattern container with pattern b"AB" and count 100000 whose
\* serialized size is the header plus a few bytes, so that its ratio is
\* above 10,000:1.
C18_LargeRepeatRatio ==
  /\ IsCall("scale")
  /\ call.arg = <<<<65, 66>>, LargeCount>>
  /\ IsContainer(container)
  => /\ container.compression_type = PATTERN_REPEAT
     /\ JEq(container.seed, JBytes(<<65, 66>>))
     /\ JEq(container.generator_params, JDict(<< <<K_count, JInt(LargeCount)>> >>))
     /\ RatioGreater(container.original_size.v, compressed_size(container), 10000, 1)

\* ---------------------------------------------------------------------
\* Concurrent callers: threads that each compress their own blob and
\* decompress the container they got, on one SemanticCompressor and one
\* module-level catalog.  A thread can be preempted between any two
\* strategies of compress and between the two halves of decompress.

ThreadCount == 2

ThreadInputs ==
  { Expansion(1, 3), Expansion(3, 5), Repeat(<<65, 66>>, 100),
    NumberText(get_primes(60), <<CH_COMMA>>), <<65, 49, 44>> }

Thread(pc, input, best, result, output) ==
  [pc |-> pc, input |-> input, best |-> best, result |-> result, out |-> output]

\* threading.Thread(target=..., args=(d,)).start()
Spawn(d) ==
  /\ IsNone(data) /\ IsNone(call) /\ IsNone(search)
  /\ Len(threads) < ThreadCount
  /\ threads' = Append(threads, Thread("pattern", d, JNone, JNone, JNone))
  /\ UNCHANGED <<GENERATORS, codecs, KNOWN_LSYSTEMS, data, container, again, other, wire, parsed, out, outParsed, tamper, call, search>>

ThreadAt(t, pc) == t \in 1..Len(threads) /\ threads[t].pc = pc

Stepped(t, pc, best) ==
  /\ threads' = [threads EXCEPT ![t] = Thread(pc, @.input, best, @.result, @.out)]
  /\ UNCHANGED <<GENERATORS, codecs, KNOWN_LSYSTEMS, data, container, again, other, wire, parsed, out, outParsed, tamper, call, search>>

ThreadSize(t) == JInt(Len(threads[t].input))

ThreadHash(t) == JStr(Sha256Hex32(threads[t].input))

\* Strategy 1 of compress in thread t.
ThreadPattern(t) ==
  /\ ThreadAt(t, "pattern")
  /\ Stepped(t, "lsystem",
             Keep(JNone, try_pattern_compression(threads[t].input), Len(threads[t].input)))

\* A strategy 2 that takes the systems it tried out of the catalog.
ThreadLSystemForgetting(t) ==
  /\ ThreadAt(t, "lsystem")
  /\ threads' = [threads EXCEPT ![t] =
                   Thread("sequence", @.input,
                          Keep(@.best,
                               Caught(LSystemStrategy(@.input, ThreadSize(t), ThreadHash(t),
                                                      KNOWN_LSYSTEMS)),
                               Len(@.input)),
                          @.result, @.out)]
  /\ KNOWN_LSYSTEMS' = << >>
  /\ UNCHANGED <<GENERATORS, codecs, data, container, again, other, wire, parsed, out, outParsed, tamper, call, search>>

\* Strategy 2 of compress in thread t: find_lsystem reads the catalog.
ThreadLSystem(t) ==
  /\ ThreadAt(t, "lsystem")
  /\ Stepped(t, "sequence",
             Keep(threads[t].best,
                  Caught(LSystemStrategy(threads[t].input, ThreadSize(t), ThreadHash(t),
                                         KNOWN_LSYSTEMS)),
                  Len(threads[t].input)))

\* Strategy 3 of compress in thread t.
ThreadSequence(t) ==
  /\ ThreadAt(t, "sequence")
  /\ Stepped(t, "dictionary",
             Keep(threads[t].best,
                  Caught(SequenceStrategy(threads[t].input, ThreadSize(t), ThreadHash(t))),
                  Len(threads[t].input)))

\* Strategy 4 of compress in thread t.
ThreadDictionary(t) ==
  /\ ThreadAt(t, "dictionary")
  /\ Stepped(t, "return",
             DictionaryStrategy(threads[t].best,
                                try_dictionary_compression(threads[t].input, ThreadSize(t),
                                                           ThreadHash(t)),
                                Len(threads[t].input)))

\* The end of compress in thread t: the raw fallback, and the return.
ThreadReturn(t) ==
  /\ ThreadAt(t, "return")
  /\ threads' = [threads EXCEPT ![t] =
                   Thread("compressed", @.input, @.best,
                          OrRaw(@.best, @.input, ThreadSize(t), ThreadHash(t)), @.out)]
  /\ UNCHANGED <<GENERATORS, codecs, KNOWN_LSYSTEMS, data, container, again, other, wire, parsed, out, outParsed, tamper, call, search>>

\* The branches of decompress in thread t, on the container it got.
ThreadRegenerate(t) ==
  /\ ThreadAt(t, "compressed")
  /\ threads' = [threads EXCEPT ![t] =
                   IF IsContainer(@.result)
                   THEN Thread("verify", @.input, @.best, @.result, Regenerate(@.result))
                   ELSE Thread("done", @.input, @.best, @.result, @.out)]
  /\ UNCHANGED <<GENERATORS, codecs, KNOWN_LSYSTEMS, data, container, again, other, wire, parsed, out, outParsed, tamper, call, search>>

\* The hash check of decompress in thread t, and the return.
ThreadVerify(t) ==
  /\ ThreadAt(t, "verify")
  /\ threads' = [threads EXCEPT ![t] =
                   Thread("done", @.input, @.best, @.result,
                          VerifyHash(@.out, @.result.original_hash))]
  /\ UNCHANGED <<GENERATORS, codecs, KNOWN_LSYSTEMS, data, container, again, other, wire, parsed, out, outParsed, tamper, call, search>>

NextThreads ==
  \/ \E d \in ThreadInputs : Spawn(d)
  \/ \E t \in 1..ThreadCount : ThreadPattern(t)
  \/ \E t \in 1..ThreadCount : ThreadLSystem(t)
  \/ \E t \in 1..ThreadCount : ThreadSequence(t)
  \/ \E t \in 1..ThreadCount : ThreadDictionary(t)
  \/ \E t \in 1..ThreadCount : ThreadReturn(t)
  \/ \E t \in 1..ThreadCount : ThreadRegenerate(t)
  \/ \E t \in 1..ThreadCount : ThreadVerify(t)

SpecThreads == Init /\ [][NextThreads]_vars

\* Two results of compress are the same container.
SameContainer(c, d) ==
  /\ c.t = d.t
  /\ IsContainer(c) =>
       /\ c.compression_type = d.compression_type
       /\ JEq(c.seed, d.seed)
       /\ JEq(c.generator_params, d.generator_params)
       /\ JEq(c.original_size, d.original_size)
       /\ JEq(c.original_hash, d.original_hash)

HasReturned(t) == threads[t].pc \in {"compressed", "verify", "done"}

\* The catalog is as the module defined it, and every call that returned
\* gave what the same call gives when no other thread runs.
ThreadsIsolated ==
  /\ KNOWN_LSYSTEMS = InitialLSystems
  /\ \A t \in 1..Len(threads) :
       /\ HasReturned(t) =>
            SameContainer(threads[t].result, compress(threads[t].input, InitialLSystems))
       /\ threads[t].pc = "done" /\ IsContainer(threads[t].result) =>
            JEq(threads[t].out, decompress(compress(threads[t].input, InitialLSystems)))

\* No step writes the catalog or a container that was returned.
SharedUnwritten ==
  /\ KNOWN_LSYSTEMS' = KNOWN_LSYSTEMS
  /\ \A t \in 1..Len(threads) :
       HasReturned(t) => SameContainer(threads'[t].result, threads[t].result)

\* C19: compress and decompress write no state another call can read (the
\* catalog and the container passed to decompress are unchanged by every
\* step), and under every interleaving of concurrent calls each call
\* returns what it returns when run alone.
C19_StatelessUnderConcurrency == []ThreadsIsolated /\ [][SharedUnwritten]_vars

\* Thread 2 ran its whole compress and decompress of an L-system text
\* while thread 1, on another blob, was stopped in the middle of compress.
C19_Witness ==
  /\ Len(threads) = ThreadCount
  /\ threads[1].pc = "dictionary"
  /\ threads[2].pc = "done"
  /\ threads[1].input # threads[2].input
  /\ threads[2].result.compression_type = LSYSTEM
  /\ JEq(threads[2].out, JBytes(threads[2].input))

\* ---------------------------------------------------------------------
\* The sequence families, one after the other.

\* The length of the long list of primes: the first for which the powers
\* of the ratio 3/2 leave the doubles.
PrimeRunLen == 1750

FamilyLists == DetectLists \cup {get_primes(PrimeRunLen)}

\* self._try_sequence_compression(X, orig_size, orig_hash) for the parsed
\* list X of the canonical text of X.
TrySequenceCompression(X) ==
  /\ IsNone(call) /\ IsNone(data) /\ IsNone(search) /\ threads = << >>
  /\ call' = Called("_try_sequence_compression", X,
                    try_sequence_compression(
                      X, JInt(Len(NumberText(X, <<CH_COMMA>>))),
                      JStr(Sha256Hex32(NumberText(X, <<CH_COMMA>>)))))
  /\ UNCHANGED <<GENERATORS, codecs, KNOWN_LSYSTEMS, data, container, again, other, wire, parsed, out, outParsed,
                 tamper, search, threads>>

NextFamilies == \E X \in FamilyLists : TrySequenceCompression(X)

SpecFamilies == Init /\ [][NextFamilies]_vars

\* What the families after the geometric one give for X: the container of
\* the first of Fibonacci, powers, primes that matches, or None.
LaterFamilies(X, orig_size, orig_hash) ==
  FirstFamily(JNone, JNone, find_fibonacci_like(X), find_powers(X),
              find_primes_sequence(X), orig_size, orig_hash)

\* C21: a miss or a failure of one family's recognizer never keeps the
\* later ones from being tried: when the arithmetic recognizer misses X
\* and the geometric one misses it or raises, _try_sequence_compression
\* returns what the Fibonacci, powers and primes recognizers give.
C21_LaterFamiliesTried ==
  IsCall("_try_sequence_compression")
  /\ IsNone(find_arithmetic_sequence(call.arg))
  /\ ~(find_geometric_sequence(call.arg).t = "found")
  => SameContainer(call.result,
                   LaterFamilies(call.arg, JInt(Len(NumberText(call.arg, <<CH_COMMA>>))),
                                 JStr(Sha256Hex32(NumberText(call.arg, <<CH_COMMA>>)))))

\* ---------------------------------------------------------------------
\* C22: every container compress returns that is not the raw storage of
\* the input serializes to strictly fewer bytes than the input; a
\* dictionary-coded container is returned only when its serialized form
\* is smaller than the input.
C22_NonRawIsSmaller ==
  /\ data.t = "bytes"
  /\ IsContainer(container)
  /\ ~IsRawFallback(container, data.v)
  => compressed_size(container) < Len(data.v)

(***************************************************************************)
(* SemanticAnalyzer (semantic_finder.py): the domain of a text and the     *)
(* relation of a number sequence, as MeaningCompressor reads them.         *)
(***************************************************************************)
\* sub in text
Contains(text, sub) ==
  \E i \in 1..(Len(text) - Len(sub) + 1) : SubSeq(text, i, i + Len(sub) - 1) = sub

\* _check_self_similarity(text): the first quarter of the text occurs at
\* least three times, counted as str.count does, from left to right without
\* overlap.  The first occurrence is the prefix itself.
check_self_similarity(text) ==
  /\ Len(text) >= 10
  /\ Len(text) \div 4 >= 2
  /\ LET quarter == Len(text) \div 4
         at == {i \in 1..(Len(text) - quarter + 1) :
                  SubSeq(text, i, i + quarter - 1) = SubSeq(text, 1, quarter)}
     IN \E i \in at : i >= 1 + quarter /\ \E j \in at : j >= i + quarter

\* set('F+-[]<>|\\/') and the two blanks _check_grammar allows.
LSystemChars == {70, 43, 45, 91, 93, 60, 62, 124, 92, 47}

\* _check_grammar(text)
check_grammar(text) ==
  \/ Len(text) > 10 /\ \A i \in 1..Len(text) : text[i] \in LSystemChars \cup {32, 10}
  \/ Contains(text, <<58, 58, 61>>)
  \/ Contains(text, <<45, 62>>)

\* pattern * (len(text) // size) == text[:size * (len(text) // size)] for
\* pattern = text[:size]
TilesPrefix(text, size) ==
  \A i \in 1..(size * (Len(text) \div size)) : text[i] = text[((i - 1) % size) + 1]

\* _check_repetition(text)
check_repetition(text) ==
  /\ Len(text) >= 4
  /\ \E pattern_len \in 1..(Len(text) \div 2) :
       TilesPrefix(text, pattern_len) /\ Len(text) \div pattern_len >= 2

\* s.lstrip('-')
RECURSIVE LStripMinus(_)
LStripMinus(s) == IF Len(s) > 0 /\ s[1] = CH_MINUS THEN LStripMinus(Tail(s)) ELSE s

\* p.strip().lstrip('-').isdigit() for a text of ASCII characters
IsNumberToken(p) ==
  LET body == LStripMinus(Strip(p))
  IN Len(body) > 0 /\ \A i \in 1..Len(body) : IsDigit(body[i])

\* [int(p.strip()) for p in parts if p.strip().lstrip('-').isdigit()] for
\* parts = text.split(','): the list, or the ValueError of int() for a
\* token with more than one minus sign.
TokenNumbers(text) ==
  LET kept == SelectSeq(Split(text, CH_COMMA), IsNumberToken)
      nums == [i \in 1..Len(kept) |-> PyInt(kept[i])]
  IN IF \E i \in 1..Len(nums) : IsRaise(nums[i]) THEN Raise("ValueError")
     ELSE JList([i \in 1..Len(nums) |-> nums[i].v])

\* _check_sequence(text)
check_sequence(text) ==
  /\ Contains(text, <<CH_COMMA>>)
  /\ Len(Split(text, CH_COMMA)) >= 3
  /\ Once(LAMBDA nums : ~IsRaise(nums) /\ Len(nums.v) >= 3, TokenNumbers(text))

\* '()', '[]', '{}', '<>'
NestingChars == {<<40, 41>>, <<91, 93>>, <<123, 125>>, <<60, 62>>}

\* _check_hierarchy(text): some prefix holds two more opening characters
\* than closing ones, for a pair both of whose characters occur.
check_hierarchy(text) ==
  \E pair \in NestingChars :
    /\ Contains(text, <<pair[1]>>) /\ Contains(text, <<pair[2]>>)
    /\ \E i \in 1..Len(text) :
         Cardinality({j \in 1..i : text[j] = pair[1]})
           - Cardinality({j \in 1..i : text[j] = pair[2]}) >= 2

\* _check_growth_pattern(text)
check_growth_pattern(text) ==
  LET lines   == IF Contains(text, <<10>>) THEN Split(text, 10) ELSE <<text>>
      lengths == SelectSeq([i \in 1..Len(lines) |-> Len(lines[i])], LAMBDA n : n > 0)
  IN IF Len(lines) < 3 /\ Len(text) > 20 THEN TRUE
     ELSE IF Len(lengths) >= 3 THEN lengths[Len(lengths)] > lengths[1] * 2
     ELSE FALSE

\* _check_randomness(text)
check_randomness(text) ==
  /\ Len(text) >= 20
  /\ 10 * Cardinality({text[i] : i \in 1..Len(text)}) > 3 * Len(text)
  /\ ~check_repetition(text)
  /\ ~check_sequence(text)

\* _identify_domain(data, text) for a text
identify_domain(text) ==
  IF check_self_similarity(text) THEN "self_similar"
  ELSE IF check_grammar(text) THEN "generative"
  ELSE IF check_repetition(text) THEN "cyclical"
  ELSE IF check_sequence(text) THEN "sequential"
  ELSE IF check_hierarchy(text) THEN "hierarchical"
  ELSE IF check_growth_pattern(text) THEN "generative"
  ELSE IF check_randomness(text) THEN "random"
  ELSE "unknown"

\* round(a / b, 2) * 100 for integers a and b # 0: the nearest hundredth,
\* a tie going to the even one.  A quotient halfway between two hundredths
\* is a multiple of 1/8 and so a float; every other quotient is further
\* from the halfway point than the float nearest to it.
RoundedRatio(a, b) ==
  LET n == IF b < 0 THEN -(100 * a) ELSE 100 * a
      d == Abs(b)
      q == n \div d
      r == n % d
  IN IF 2 * r < d THEN q
     ELSE IF 2 * r > d THEN q + 1
     ELSE IF q % 2 = 0 THEN q ELSE q + 1

\* The relation _find_sequence_relation finds in at least three numbers:
\* "arithmetic" stands for 'next = prev + <step>', "fibonacci" for
\* 'next = prev + prev_prev', "geometric" for 'next = prev x <ratio>',
\* "other" for 'next = f(prev)'.
sequence_relation(nums) ==
  IF \A i \in 1..(Len(nums) - 1) : nums[i + 1] - nums[i] = nums[2] - nums[1]
  THEN "arithmetic"
  ELSE IF \A i \in 3..Len(nums) : nums[i] = nums[i - 1] + nums[i - 2]
  THEN "fibonacci"
  ELSE IF nums[1] # 0
          /\ \A i \in 1..(Len(nums) - 1) :
               nums[i] # 0 => RoundedRatio(nums[i + 1], nums[i]) = RoundedRatio(nums[2], nums[1])
  THEN "geometric"
  ELSE "other"

\* _find_sequence_relation(text)
find_sequence_relation(text) ==
  IF ~Contains(text, <<CH_COMMA>>) THEN "other"
  ELSE Once(LAMBDA nums : IF IsRaise(nums) \/ Len(nums.v) < 3 THEN "other"
                          ELSE sequence_relation(nums.v),
            TokenNumbers(text))
(***************************************************************************)
(* MeaningCompressor (meaning_compressor.py).                              *)
(***************************************************************************)
\* The deepest nesting of '([{<' against ')]}>' that
\* _measure_self_reference_depth counts, 0 when the text opens none.
NestingDepth(text) ==
  LET opening == {40, 91, 123, 60}
      closing == {41, 93, 125, 62}
      level(i) == Cardinality({j \in 1..i : text[j] \in opening})
                    - Cardinality({j \in 1..i : text[j] \in closing})
      levels == {level(i) : i \in 1..Len(text)} \cup {0}
  IN CHOOSE m \in levels : \A n \in levels : n <= m

\* The sizes whose pattern text[:size] tiles the text up to its last whole
\* repeat (_find_cycle in both modules).
CycleSizes(text) == {size \in 1..(Len(text) \div 2) : TilesPrefix(text, size)}

\* TRUE iff expansion_factor ** depth (semantic_finder.py:350) raises
\* OverflowError, for expansion_factor = factor[1] / factor[2].
PowerOverflows(factor, depth) == depth >= 1 /\ GeometricOverflows(1, factor, depth + 1)

\* TRUE iff find_generator raises in _estimate_compression: the depth of
\* _find_blueprint is the nesting depth of a self-similar text, the number
\* of repeats of a cyclical one and the number of comma-separated pieces of
\* a sequential one; L is 0.9 for a self-similar text, 0.7 for a cyclical
\* one and 0.4 otherwise; and expansion_factor = 1 + L * 4.  The depths
\* measured by a logarithm of the length, and the depth 1 of the other
\* domains, are far below the range where the power overflows.
EstimateOverflows(text, domain) ==
  IF domain = "self_similar" THEN PowerOverflows(<<23, 5>>, NestingDepth(text))
  ELSE IF domain = "cyclical"
  THEN PowerOverflows(<<19, 5>>,
                      Len(text) \div (CHOOSE s \in CycleSizes(text) :
                                        \A o \in CycleSizes(text) : s <= o))
  ELSE IF domain = "sequential"
  THEN PowerOverflows(<<13, 5>>, Len(Split(text, CH_COMMA)))
  ELSE FALSE

\* The L-system entries of GENERATORS (meaning_compressor.py:78-93), in the
\* order _identify_generator tries them: koch, sierp, dragon.  Axioms and
\* rules are those of the first three entries of KNOWN_LSYSTEMS.
MeaningGenerators ==
  << [name |-> "koch",   axiom |-> InitialLSystems[1].axiom, rules |-> InitialLSystems[1].rules],
     [name |-> "sierp",  axiom |-> InitialLSystems[2].axiom, rules |-> InitialLSystems[2].rules],
     [name |-> "dragon", axiom |-> InitialLSystems[3].axiom, rules |-> InitialLSystems[3].rules] >>

\* _matches_lsystem_with_depth(text, lsystem), from depth `depth` on: the
\* depth of the first match, or None.
RECURSIVE MatchDepthFrom(_, _, _)
MatchDepthFrom(text, lsystem, depth) ==
  IF depth > MATCH_MAX_DEPTH THEN JNone
  ELSE Once(LAMBDA length :
              IF length = Len(text)
                 /\ generate_lsystem(lsystem.axiom, lsystem.rules, depth) = text
              THEN JInt(depth)
              ELSE IF length > Len(text) * 2 THEN JNone
              ELSE MatchDepthFrom(text, lsystem, depth + 1),
            LSystemLength(lsystem.axiom, lsystem.rules, depth))

matches_lsystem_with_depth(text, lsystem) == MatchDepthFrom(text, lsystem, 1)

K_depth == <<100, 101, 112, 116, 104>>

K_seeds == <<115, 101, 101, 100, 115>>

\* What _identify_generator returns: (generator, brick, mortar).
Identified(generator, brick, mortar) ==
  [generator |-> generator, brick |-> brick, mortar |-> JDict(mortar)]

\* The loop over koch, sierp, dragon of _identify_generator, from entry k.
RECURSIVE IdentifyLSystem(_, _)
IdentifyLSystem(text, k) ==
  IF k > Len(MeaningGenerators) THEN JNone
  ELSE Once(LAMBDA match :
              IF ~IsNone(match)
              THEN Found(Identified(MeaningGenerators[k].name, MeaningGenerators[k].axiom,
                                    << <<K_rules, MeaningGenerators[k].rules>>,
                                       <<K_depth, match>> >>))
              ELSE IdentifyLSystem(text, k + 1),
            matches_lsystem_with_depth(text, MeaningGenerators[k]))

\* str((a, b))
TupleText(a, b) == <<40>> \o IntToStr(a) \o <<44, 32>> \o IntToStr(b) \o <<41>>

\* The sequence branch of _identify_generator for the relation found.
IdentifySequence(text, relation) ==
  LET nums == TokenNumbers(text).v
  IN IF relation = "fibonacci"
     THEN Found(Identified("fib", TupleText(nums[1], nums[2]),
                           << <<K_seeds, JList(<<nums[1], nums[2]>>)>>,
                              <<K_count, JInt(Len(nums))>> >>))
     ELSE IF relation = "arithmetic"
     THEN Found(Identified("arith", IntToStr(nums[1]),
                           << <<K_start, JInt(nums[1])>>,
                              <<K_step, JInt(nums[2] - nums[1])>>,
                              <<K_count, JInt(Len(nums))>> >>))
     ELSE IF relation = "geometric"
     THEN Found(Identified("geom", IntToStr(nums[1]),
                           << <<K_start, JInt(nums[1])>>,
                              <<K_ratio, JFloat(FloatOfRatio(nums[2], nums[1])[1],
                                                FloatOfRatio(nums[2], nums[1])[2])>>,
                              <<K_count, JInt(Len(nums))>> >>))
     ELSE JNone

\* The repetition branch of _identify_generator: the shortest cycle, when
\* the text is a whole number of repeats of it.
IdentifyCycle(text) ==
  IF CycleSizes(text) = {} THEN JNone
  ELSE LET size  == CHOOSE s \in CycleSizes(text) : \A o \in CycleSizes(text) : s <= o
           count == Len(text) \div size
       IN IF size < Len(text) /\ Repeat(SubSeq(text, 1, size), count) = text
          THEN Found(Identified("repeat", SubSeq(text, 1, size), << <<K_count, JInt(count)>> >>))
          ELSE JNone

\* _identify_generator(text, semantic)
identify_generator(text, domain) ==
  LET lsystem  == IF domain = "generative" THEN IdentifyLSystem(text, 1) ELSE JNone
      sequence == IF domain = "sequential"
                  THEN IdentifySequence(text, find_sequence_relation(text)) ELSE JNone
      cycle    == IF domain \in {"cyclical", "self_similar"} THEN IdentifyCycle(text) ELSE JNone
  IN IF ~IsNone(lsystem) THEN lsystem.v
     ELSE IF ~IsNone(sequence) THEN sequence.v
     ELSE IF ~IsNone(cycle) THEN cycle.v
     ELSE Identified("repeat", text, << <<K_count, JInt(1)>> >>)

\* MeaningPacket(...), with the fields decompress reads.  The packet's depth
\* is read only as the default of a mortar entry that every packet of
\* compress carries; the LJPW coordinates and the description are not read.
MeaningPacket(identified, original_size, original_hash) ==
  [t |-> "MeaningPacket", generator |-> identified.generator, brick |-> identified.brick,
   mortar |-> identified.mortar, original_size |-> original_size,
   original_hash |-> original_hash]

\* text = data.decode('utf-8'), or data.hex() when that raises
\* (meaning_compressor.py:256-259)
MeaningText(blob) ==
  IF IsRaise(Utf8Decode(blob)) THEN HexEncode(blob) ELSE Utf8Decode(blob).v

\* MeaningCompressor.compress(data)
meaning_compress(blob) ==
  Once(LAMBDA text :
         Once(LAMBDA domain :
                IF EstimateOverflows(text, domain) THEN Raise("OverflowError")
                ELSE MeaningPacket(identify_generator(text, domain),
                                   JInt(Len(blob)), JStr(Sha256Hex32(blob))),
              identify_domain(text)),
       MeaningText(blob))

\* The text the branches of MeaningCompressor.decompress regenerate, or the
\* exception.
MeaningRegenerate(packet) ==
  LET mortar == packet.mortar
  IN IF packet.generator \in {"koch", "sierp", "dragon"}
     THEN JStr(generate_lsystem(packet.brick, Get(mortar, K_rules), Get(mortar, K_depth).v))
     ELSE IF packet.generator = "fib"
     THEN JStr(NumberText(FibonacciExtend(Get(mortar, K_seeds).v, Get(mortar, K_count).v - 2),
                          <<CH_COMMA>>))
     ELSE IF packet.generator = "arith"
     THEN JStr(NumberText([i \in 1..Get(mortar, K_count).v |->
                             Get(mortar, K_start).v + (i - 1) * Get(mortar, K_step).v],
                          <<CH_COMMA>>))
     ELSE IF packet.generator = "geom"
     THEN IF GeometricOverflows(Get(mortar, K_start).v, Get(mortar, K_ratio).v,
                                Get(mortar, K_count).v)
          THEN Raise("OverflowError")
          ELSE JStr(NumberText([i \in 1..Get(mortar, K_count).v |->
                                  LET p == FloatPow(Get(mortar, K_ratio).v, i - 1)
                                  IN TruncDiv(Get(mortar, K_start).v * p[1], p[2])],
                               <<CH_COMMA>>))
     ELSE IF packet.generator = "repeat"
     THEN JStr(Repeat(packet.brick, Get(mortar, K_count).v))
     ELSE Raise("ValueError")

\* result_bytes = result.encode('utf-8') and the hash check
\* (meaning_compressor.py:342-349)
MeaningVerify(result, original_hash) ==
  IF IsRaise(result) THEN result
  ELSE Once(LAMBDA result_bytes :
              IF ~JEq(JStr(Sha256Hex32(result_bytes)), original_hash)
              THEN Raise("ValueError")
              ELSE JBytes(result_bytes),
            Utf8Encode(result.v))

\* MeaningCompressor.decompress(packet)
meaning_decompress(packet) == MeaningVerify(MeaningRegenerate(packet), packet.original_hash)

\* Longest free-form input of MeaningCompressor.compress.
MaxMeaningLen == 5

\* The nesting depth at which the analyzer's power first leaves the doubles.
NestRunLen == 466

\* Integer lists whose texts are inputs: arithmetic, Fibonacci-like and
\* geometric ones (with ratios that are exact as floats), and lists of no
\* family.
MeaningLists ==
  { [i \in 1..70 |-> i - 1], <<0, 7, 14, 21>>, <<0, 7, 15, 21>>, FibList(1, 1, 8),
    FibList(2, 5, 6), get_primes(5), <<1, 2, 4, 8>>, <<8, 4, 2, 1>>, <<1, -2, 4, -8>>,
    <<100, 150, 225>>, <<3, 6, 12, 25>> }

\* Lists with a token that is no number: "1,2,x,4", "1,2,3,x", "3,6,9,12,x",
\* "1,2,3,--5".
MixedTexts ==
  { <<49, 44, 50, 44, 120, 44, 52>>, <<49, 44, 50, 44, 51, 44, 120>>,
    <<51, 44, 54, 44, 57, 44, 49, 50, 44, 120>>, <<49, 44, 50, 44, 51, 44, 45, 45, 53>> }

MeaningInputs ==
  SeqsUpTo(FreeAlphabet, MaxMeaningLen)
    \cup {NumberText(X, sep) : X \in MeaningLists, sep \in {<<44>>, <<44, 32>>}}
    \cup MixedTexts \cup RepeatInputs \cup LSystemInputs \cup NearMissInputs
    \cup {Repeat(<<40>>, NestRunLen - 1), Repeat(<<40>>, NestRunLen)}

\* packet = MeaningCompressor().compress(B)
MeaningCompress(B) ==
  /\ IsNone(call) /\ IsNone(data) /\ IsNone(search) /\ threads = << >>
  /\ call' = Called("MeaningCompressor.compress", B, meaning_compress(B))
  /\ UNCHANGED <<GENERATORS, codecs, KNOWN_LSYSTEMS, data, container, again, other, wire, parsed, out, outParsed,
                 tamper, search, threads>>

\* MeaningCompressor().decompress(packet) for the packet compress returned;
\* the call keeps the input B of compress as its argument.
MeaningDecompress ==
  /\ IsCall("MeaningCompressor.compress") /\ ~IsRaise(call.result)
  /\ call' = Called("MeaningCompressor.decompress", call.arg, meaning_decompress(call.result))
  /\ UNCHANGED <<GENERATORS, codecs, KNOWN_LSYSTEMS, data, container, again, other, wire, parsed, out, outParsed,
                 tamper, search, threads>>

NextMeaning ==
  \/ \E B \in MeaningInputs : MeaningCompress(B)
  \/ MeaningDecompress

SpecMeaning == Init /\ [][NextMeaning]_vars

\* C23: MeaningCompressor round trip -- for every byte string B, valid
\* UTF-8 or not, integer lists with a non-numeric token included, compress
\* does not raise and decompress(compress(B)) returns exactly B.
C23_MeaningRoundTrip ==
  /\ IsCall("MeaningCompressor.compress") => ~IsRaise(call.result)
  /\ IsCall("MeaningCompressor.decompress") => JEq(call.result, JBytes(call.arg))

(***************************************************************************)
(* find_lsystem against the expansions themselves.                         *)
(***************************************************************************)
\* Lengths are counted up to this many characters; every text searched for
\* is shorter than half of it.
LengthCap == 100000

\* How often each character occurs in generate_lsystem(axiom, rules,
\* iterations), counted up to LengthCap.
RECURSIVE CappedCensus(_, _, _)
CappedCensus(axiom, rules, iterations) ==
  IF iterations <= 0
  THEN [char \in Symbols(axiom, rules) |-> Min(Occurrences(axiom, char), LengthCap)]
  ELSE Once(LAMBDA before :
              [char \in DOMAIN before |->
                 Min(Total([from \in DOMAIN before |->
                              before[from] * Occurrences(RuleFor(rules, from), char)],
                           DOMAIN before),
                     LengthCap)],
            CappedCensus(axiom, rules, iterations - 1))

\* min(len(generate_lsystem(axiom, rules, iterations)), LengthCap)
CappedLength(lsys, iterations) ==
  Once(LAMBDA census : Min(Total(census, DOMAIN census), LengthCap),
       CappedCensus(lsys.axiom, lsys.rules, iterations))

\* generate_lsystem(lsys['axiom'], lsys['rules'], iterations) == text, for a
\* text shorter than LengthCap.
ExpandsTo(lsys, iterations, text) ==
  /\ CappedLength(lsys, iterations) = Len(text)
  /\ generate_lsystem(lsys.axiom, lsys.rules, iterations) = text

\* The (system, depth) pairs of the catalog whose expansion is the text.
MatchingPairs(text, known) ==
  {p \in (1..Len(known)) \X (1..LSYSTEM_MAX_ITERATIONS) : ExpandsTo(known[p[1]], p[2], text)}

\* The deepest expansions searched for, by catalog entry.
RecognizeDepths == <<4, 4, 7, 3>>

\* Symbols of the short texts: 'F', '+', '-', 'X'.
RecognizeAlphabet == {70, 43, 45, 88}

MaxRecognizeLen == 4

\* The texts find_lsystem is called with: short texts over the symbols of the
\* catalog (the axioms 'F' and 'FX' among them), every expansion up to
\* RecognizeDepths, the same with the last character replaced or dropped or
\* one character added.
RecognizeTexts ==
  LET expansions == UNION {{generate_lsystem(InitialLSystems[k].axiom, InitialLSystems[k].rules, d) :
                              d \in 1..RecognizeDepths[k]} : k \in 1..Len(InitialLSystems)}
  IN SeqsUpTo(RecognizeAlphabet, MaxRecognizeLen)
       \cup expansions
       \cup {[t EXCEPT ![Len(t)] = 33] : t \in expansions}
       \cup {SubSeq(t, 1, Len(t) - 1) : t \in expansions}
       \cup {Append(t, 70) : t \in expansions}

\* find_lsystem(text)
FindLsystem(text) ==
  /\ IsNone(call) /\ IsNone(data) /\ IsNone(search) /\ threads = << >>
  /\ call' = Called("find_lsystem", text, find_lsystem(text, KNOWN_LSYSTEMS))
  /\ UNCHANGED <<GENERATORS, codecs, KNOWN_LSYSTEMS, data, container, again, other, wire, parsed, out, outParsed,
                 tamper, search, threads>>

NextRecognize == \E text \in RecognizeTexts : FindLsystem(text)

SpecRecognize == Init /\ [][NextRecognize]_vars

\* C24: find_lsystem(text) returns (axiom, rules, k) exactly when the text
\* is the k-th expansion of a catalog system for some k in 1..14, and then
\* for that system and depth; every catalog rule replaces a symbol by at
\* least one symbol and the expansion lengths never decrease, so no depth
\* after one whose expansion is longer than twice the text matches; and at
\* most one (system, depth) pair matches a text.
C24_LSystemExact ==
  IsCall("find_lsystem") =>
    LET text    == call.arg
        known   == KNOWN_LSYSTEMS
        matches == MatchingPairs(text, known)
    IN /\ call.result.t = "found" <=> matches # {}
       /\ call.result.t = "found" =>
            \E p \in matches :
              call.result.v = <<known[p[1]].axiom, known[p[1]].rules, p[2]>>
       /\ Cardinality(matches) <= 1
       /\ \A k \in 1..Len(known) :
            /\ \A i \in 1..Len(known[k].rules.v) : Len(known[k].rules.v[i][2].v) >= 1
            /\ \A d \in 1..LSYSTEM_MAX_ITERATIONS :
                 /\ CappedLength(known[k], d) >= CappedLength(known[k], d - 1)
                 /\ CappedLength(known[k], d) > Len(text) * 2
                      => \A later \in d..LSYSTEM_MAX_ITERATIONS : <<k, later>> \notin matches

\* A call that found an expansion of depth 3 or more, past depths that did
\* not match.
C24_Witness ==
  /\ IsCall("find_lsystem")
  /\ call.result.t = "found"
  /\ call.result.v[3] >= 3
  /\ MatchingPairs(call.arg, KNOWN_LSYSTEMS) # {}

(***************************************************************************)
(* The recognizers of the integer families against the regenerator.        *)
(***************************************************************************)
AgreeTerms == {1, 2, 3, 4, 5, 8}

\* The lists handed to the recognizers: the short lists over DetectTerms and
\* over AgreeTerms, and the long lists of each family.
AgreeLists == DetectLists \cup SeqsUpTo(AgreeTerms, MaxListLen)

\* find_fibonacci_like(X)
FindFibonacciLike(X) ==
  /\ IsNone(call) /\ IsNone(data) /\ IsNone(search) /\ threads = << >>
  /\ call' = Called("find_fibonacci_like", X, find_fibonacci_like(X))
  /\ UNCHANGED <<GENERATORS, codecs, KNOWN_LSYSTEMS, data, container, again, other, wire, parsed, out, outParsed,
                 tamper, search, threads>>

\* find_powers(X)
FindPowers(X) ==
  /\ IsNone(call) /\ IsNone(data) /\ IsNone(search) /\ threads = << >>
  /\ call' = Called("find_powers", X, find_powers(X))
  /\ UNCHANGED <<GENERATORS, codecs, KNOWN_LSYSTEMS, data, container, again, other, wire, parsed, out, outParsed,
                 tamper, search, threads>>

\* find_primes_sequence(X)
FindPrimesSequence(X) ==
  /\ IsNone(call) /\ IsNone(data) /\ IsNone(search) /\ threads = << >>
  /\ call' = Called("find_primes_sequence", X, find_primes_sequence(X))
  /\ UNCHANGED <<GENERATORS, codecs, KNOWN_LSYSTEMS, data, container, again, other, wire, parsed, out, outParsed,
                 tamper, search, threads>>

NextAgree ==
  \/ \E X \in AgreeLists : IsNone(data) /\ FindArithmeticSequence(X)
  \/ \E X \in AgreeLists : FindFibonacciLike(X)
  \/ \E X \in AgreeLists : FindPowers(X)
  \/ \E X \in AgreeLists \ {<< >>} : FindPrimesSequence(X)

SpecAgree == Init /\ [][NextAgree]_vars

\* The seed dict _try_sequence_compression builds from what the recognizer
\* f returned.
SeedOf(f, found) ==
  IF f = "find_arithmetic_sequence" THEN ArithmeticSeed(found)
  ELSE IF f = "find_fibonacci_like" THEN FibonacciSeed(found)
  ELSE IF f = "find_powers" THEN PowersSeed(found)
  ELSE PrimesSeed(found)

\* C25: whenever find_arithmetic_sequence, find_fibonacci_like, find_powers
\* or find_primes_sequence returns a seed for a list X, _decompress_sequence
\* of that seed yields the integers of X in order; and the recognizer's list
\* of the first N primes (trial division) is the regenerator's (division by
\* the primes found so far), for N the length of every list tried.
C25_RecognizerRegeneratorAgree ==
  /\ call.t = "call"
     /\ call.f \in {"find_arithmetic_sequence", "find_fibonacci_like", "find_powers",
                    "find_primes_sequence"}
     /\ call.result.t = "found"
     => LET seed == SeedOf(call.f, call.result.v)
            X    == call.arg
        IN /\ JEq(SequenceNumbers(JDict(seed)), JList(X))
           /\ JEq(decompress_sequence(SequenceData(seed, JInt(0), JStr(<< >>))),
                  JBytes(Utf8Encode(NumberText(X, <<CH_COMMA>>))))
  /\ IsCall("find_primes_sequence")
     => get_primes(Len(call.arg)) = PrimesLoop(Len(call.arg), 2, << >>)

\* The recognizer of the primes returned the count of a list of at least
\* five primes.
C25_Witness ==
  /\ IsCall("find_primes_sequence")
  /\ call.result.t = "found"
  /\ call.result.v >= 5

\* ---------------------------------------------------------------------
\* original_size = len(B) and original_hash = the first 32 hex characters of
\* SHA-256(B), for the container c of the blob B.
DescribesBlob(c, B) ==
  /\ JEq(c.original_size, JInt(Len(B)))
  /\ JEq(c.original_hash, JStr(Sha256Hex32(B)))
  /\ Len(c.original_hash.v) = 32

\* C26: container metadata -- whichever strategy wins (pattern, L-system,
\* sequence, dictionary or raw), the container compress returns for B has
\* original_size = len(B) and original_hash = the first 32 hex characters
\* of SHA-256(B).
C26_ContainerMetadata ==
  data.t = "bytes" =>
    /\ IsContainer(container) => DescribesBlob(container, data.v)
    /\ IsContainer(again) => DescribesBlob(again, data.v)

\* compress returned a repeated-pattern container that is not the raw
\* storage of its input.
C26_Witness ==
  /\ data.t = "bytes"
  /\ IsContainer(container)
  /\ container.compression_type = PATTERN_REPEAT
  /\ ~IsRawFallback(container, data.v)
  /\ DescribesBlob(container, data.v)

\* ---------------------------------------------------------------------
\* C27: repeated-pattern container invariant -- every PATTERN_REPEAT
\* container compress returns has len(seed) * count = original_size; its
\* count is 1 exactly when it is the raw storage of the whole input; and
\* one that the pattern detector produced has count >= 2 and
\* len(seed) <= original_size / 2.
C27_PatternContainer ==
  /\ data.t = "bytes"
  /\ IsContainer(container)
  /\ container.compression_type = PATTERN_REPEAT
  => /\ container.seed.t = "bytes"
     /\ HasKey(container.generator_params, K_count)
     /\ LET seed  == container.seed.v
            count == Get(container.generator_params, K_count).v
        IN /\ Len(seed) * count = container.original_size.v
           /\ count = 1 <=> IsRawFallback(container, data.v)
           /\ ~IsRawFallback(container, data.v)
                => /\ count >= 2
                   /\ 2 * Len(seed) <= container.original_size.v
                   /\ IsContainer(try_pattern_compression(data.v))
                   /\ JEq(try_pattern_compression(data.v).seed, container.seed)

\* compress returned the pattern detector's container for a two-byte
\* pattern.
C27_Witness ==
  /\ data.t = "bytes"
  /\ IsContainer(container)
  /\ container.compression_type = PATTERN_REPEAT
  /\ container.seed = JBytes(<<65, 66>>)
  /\ Get(container.generator_params, K_count).v >= 2

(***************************************************************************)
(* The catalog and the containers that hold its rules.  find_lsystem       *)
(* returns lsys['rules'], the dict of the catalog entry itself             *)
(* (real_compressor.py:291), and _try_lsystem_compression puts that dict   *)
(* into generator_params (real_compressor.py:426): the container and the   *)
(* catalog entry hold one dict, and a write through either is a write to   *)
(* both.                                                                   *)
(***************************************************************************)
\* The replacements a caller writes into a rules dict: key and new value.
RuleWrites == {<<70, <<70, 70>>>>, <<70, << >>>>, <<88, <<88>>>>, <<71, <<70>>>>, <<90, <<70>>>>}

\* The catalog entries whose rules dict the container of compress holds: the
\* entry find_lsystem matched.  The entries of the module start out with
\* different rules, and a dict shared with a container is written only
\* together with it, so the entry is the one with the container's axiom and
\* rules.
SharesRules(c, lsys) ==
  /\ c.compression_type = LSYSTEM
  /\ JEq(c.seed, JStr(lsys.axiom))
  /\ Get(c.generator_params, K_rules) = lsys.rules

\* container.generator_params['rules'][key] = value, written by the caller
\* into the container compress returned.
ModifyRules(key, value) ==
  /\ data.t = "bytes" /\ IsContainer(container) /\ container.compression_type = LSYSTEM
  /\ tamper = "none" /\ IsNone(again) /\ IsNone(call)
  /\ LET rules   == Get(container.generator_params, K_rules)
         written == JDict(DictPut(rules.v, <<key>>, JStr(value)))
     IN /\ container' = [container EXCEPT !.generator_params =
                           JDict(DictPut(container.generator_params.v, K_rules, written))]
        /\ KNOWN_LSYSTEMS' =
             [k \in DOMAIN KNOWN_LSYSTEMS |->
                IF SharesRules(container, KNOWN_LSYSTEMS[k])
                THEN [KNOWN_LSYSTEMS[k] EXCEPT !.rules = written]
                ELSE KNOWN_LSYSTEMS[k]]
  /\ tamper' = "rules"
  /\ UNCHANGED <<GENERATORS, codecs, data, again, other, wire, parsed, out, outParsed, call, search, threads>>

\* find_lsystem(text) for the text of the blob that was compressed.
FindLsystemAgain ==
  /\ data.t = "bytes" /\ IsNone(call) /\ ~IsRaise(Utf8Decode(data.v))
  /\ call' = Called("find_lsystem", Utf8Decode(data.v).v,
                    find_lsystem(Utf8Decode(data.v).v, KNOWN_LSYSTEMS))
  /\ UNCHANGED <<GENERATORS, codecs, KNOWN_LSYSTEMS, data, container, again, other, wire, parsed, out, outParsed,
                 tamper, search, threads>>

\* A caller that compresses a blob, may write into the rules of the
\* container it got, and then calls compress and find_lsystem again.
NextCatalog ==
  \/ \E d \in LSystemInputs \cup NearMissInputs \cup FreeInputs : Compress(d)
  \/ \E w \in RuleWrites : ModifyRules(w[1], w[2])
  \/ CompressAgain
  \/ FindLsystemAgain

SpecCatalog == Init /\ [][NextCatalog]_vars

\* C28: catalog isolation -- a container compress returned shares no
\* mutable state with the catalog: after the caller modifies the rules map
\* of a returned LSYSTEM container, KNOWN_LSYSTEMS is unchanged and every
\* later compress and find_lsystem call returns what it returned before.
C28_CatalogIsolation ==
  /\ KNOWN_LSYSTEMS = InitialLSystems
  /\ IsContainer(again) => SameContainer(again, compress(data.v, InitialLSystems))
  /\ IsCall("find_lsystem") => call.result = find_lsystem(call.arg, InitialLSystems)

(***************************************************************************)
(* semantic_codec.py: the generators, the packet and SemanticCodec.  A     *)
(* seed is an int or a (bytes, int) tuple; data is a list of ints or       *)
(* bytes.                                                                  *)
(***************************************************************************)
JTuple(items) == [t |-> "tuple", v |-> items]

\* seq after `more` further rounds of seq.append(seq[-1] + seq[-2]).
RECURSIVE FibonacciTerms(_, _)
FibonacciTerms(seq, more) ==
  IF more <= 0 THEN seq
  ELSE FibonacciTerms(Append(seq, seq[Len(seq)] + seq[Len(seq) - 1]), more - 1)

\* gen_fibonacci(seed); n <= 0 raises TypeError for a tuple.
gen_fibonacci(seed) ==
  IF seed.t # "int" THEN Raise("TypeError")
  ELSE IF seed.v <= 0 THEN JList(<< >>)
  ELSE IF seed.v = 1 THEN JList(<<1>>)
  ELSE IF seed.v = 2 THEN JList(<<1, 1>>)
  ELSE JList(FibonacciTerms(<<1, 1>>, seed.v - 2))

\* gen_powers_of_two(seed); range(seed) raises TypeError for a tuple.
gen_powers_of_two(seed) ==
  IF seed.t # "int" THEN Raise("TypeError")
  ELSE JList([i \in 1..seed.v |-> 2 ^ (i - 1)])

\* The while loop of gen_primes: a candidate is appended when no prime
\* found so far divides it.
RECURSIVE PrimesByTrial(_, _, _)
PrimesByTrial(seed, primes, candidate) ==
  IF Len(primes) >= seed THEN primes
  ELSE PrimesByTrial(seed,
                     IF \A k \in 1..Len(primes) : candidate % primes[k] # 0
                     THEN Append(primes, candidate) ELSE primes,
                     candidate + 1)

\* gen_primes(seed); seed <= 0 raises TypeError for a tuple.
gen_primes(seed) ==
  IF seed.t # "int" THEN Raise("TypeError")
  ELSE IF seed.v <= 0 THEN JList(<< >>)
  ELSE JList(PrimesByTrial(seed.v, << >>, 2))

\* gen_repeated_pattern(seed): pattern, count = seed raises TypeError for
\* an int; bytes * count is empty for count <= 0.
gen_repeated_pattern(seed) ==
  IF seed.t # "tuple" THEN Raise("TypeError")
  ELSE JBytes(Repeat(seed.v[1].v, seed.v[2].v))

\* gen_ljpw_metrics(seed): P, W = seed raises TypeError for an int, and
\* 0.85 * P raises TypeError for the bytes of a (bytes, int) tuple.
gen_ljpw_metrics(seed) == Raise("TypeError")

\* gen_mathematical_constant(seed): constants.get(seed, 0.0); an int or a
\* tuple is not one of the five names.
gen_mathematical_constant(seed) == JFloat(0, 1)

\* generator(seed) for a function of the module.
CallGenerator(generator, seed) ==
  CASE generator = "gen_fibonacci"             -> gen_fibonacci(seed)
    [] generator = "gen_powers_of_two"         -> gen_powers_of_two(seed)
    [] generator = "gen_primes"                -> gen_primes(seed)
    [] generator = "gen_repeated_pattern"      -> gen_repeated_pattern(seed)
    [] generator = "gen_ljpw_metrics"          -> gen_ljpw_metrics(seed)
    [] generator = "gen_mathematical_constant" -> gen_mathematical_constant(seed)

\* str(data) for a list of ints: '[1, 2, 3]'.
StrOfList(items) ==
  <<91>> \o Join([i \in 1..Len(items) |-> IntToStr(items[i])], <<44, 32>>) \o <<93>>

\* hashlib.sha256(...).hexdigest()[:16] of the bytes, or of str(data) for a
\* list.
PacketChecksum(blob) ==
  SubSeq(Sha256Hex32(IF blob.t = "bytes" THEN blob.v ELSE StrOfList(blob.v)), 1, 16)

\* len(data) for bytes, len(str(data)) for a list.
PacketOriginalSize(blob) ==
  IF blob.t = "bytes" THEN Len(blob.v) ELSE Len(StrOfList(blob.v))

CompressedPacket(seed, generator_id, checksum, original_size) ==
  [t |-> "CompressedPacket", seed |-> seed, generator_id |-> generator_id,
   checksum |-> checksum, original_size |-> original_size]

IsPacket(x) == x.t = "CompressedPacket"

\* table[name] = generator on a dict.
TablePut(table, name, generator) ==
  [n \in DOMAIN table \cup {name} |-> IF n = name THEN generator ELSE table[n]]

\* SemanticCodec.compress(data, generator_id, seed) on a codec whose
\* self.generators is `generators`: the generator is called, what it
\* returned is bound to `regenerated` and not read again.
SemanticCodec_compress(generators, blob, generator_id, seed) ==
  IF generator_id \notin DOMAIN generators THEN Raise("ValueError")
  ELSE LET regenerated == CallGenerator(generators[generator_id], seed)
       IN IF IsRaise(regenerated) THEN regenerated
          ELSE CompressedPacket(seed, generator_id, PacketChecksum(blob),
                                PacketOriginalSize(blob))

\* SemanticCodec.decompress(packet)
SemanticCodec_decompress(generators, packet) ==
  IF packet.generator_id \notin DOMAIN generators THEN Raise("ValueError")
  ELSE CallGenerator(generators[packet.generator_id], packet.seed)

\* What register would do to the tables if every codec held one shared
\* dict instead of a copy.
RegisteredEverywhere(tables, i, name, generator) ==
  [j \in DOMAIN tables |-> TablePut(tables[j], name, generator)]

\* The tables of all codecs after codecs[i].register(name, generator):
\* self.generators is the codec's own dict.
RegisteredTables(tables, i, name, generator) ==
  [tables EXCEPT ![i] = TablePut(@, name, generator)]

MaxCodecs == 2

\* What the callers of the model pass.
CodecData == {JList(<<1, 1, 2>>), JBytes(<<65, 66, 65, 66>>)}

CodecSeeds == {JInt(3), JTuple(<<JBytes(<<65, 66>>), JInt(2)>>)}

\* The name and function of the register calls.
CodecRegistrations == {<<"custom", "gen_primes">>, <<"fibonacci", "gen_primes">>}

CodecGeneratorIds ==
  {"fibonacci", "primes", "powers_of_two", "repeated_pattern", "ljpw_metrics",
   "mathematical_constant", "custom", "extra"}

\* codec = SemanticCodec()
NewCodec ==
  /\ Len(codecs) < MaxCodecs
  /\ codecs' = Append(codecs, GENERATORS)
  /\ call' = Called("SemanticCodec", Len(codecs) + 1, JNone)
  /\ UNCHANGED <<GENERATORS, KNOWN_LSYSTEMS, data, container, again, other, wire, parsed, out,
                 outParsed, tamper, search, threads>>

\* register_generator(name)(generator) at module level.
RegisterGenerator(name, generator) ==
  /\ GENERATORS' = TablePut(GENERATORS, name, generator)
  /\ call' = Called("register_generator", <<name, generator>>, JNone)
  /\ UNCHANGED <<codecs, KNOWN_LSYSTEMS, data, container, again, other, wire, parsed, out,
                 outParsed, tamper, search, threads>>

\* codecs[i].register(name, generator)
Register(i, name, generator) ==
  /\ i \in DOMAIN codecs
  /\ codecs' = RegisteredTables(codecs, i, name, generator)
  /\ call' = Called("SemanticCodec.register", [codec |-> i, name |-> name, generator |-> generator],
                    JNone)
  /\ UNCHANGED <<GENERATORS, KNOWN_LSYSTEMS, data, container, again, other, wire, parsed, out,
                 outParsed, tamper, search, threads>>

\* codecs[i].compress(blob, generator_id, seed)
CodecCompress(i, blob, generator_id, seed) ==
  /\ i \in DOMAIN codecs
  /\ call' = Called("SemanticCodec.compress",
                    [codec |-> i, data |-> blob, generator_id |-> generator_id, seed |-> seed],
                    SemanticCodec_compress(codecs[i], blob, generator_id, seed))
  /\ UNCHANGED <<GENERATORS, codecs, KNOWN_LSYSTEMS, data, container, again, other, wire, parsed,
                 out, outParsed, tamper, search, threads>>

\* codecs[i].decompress(packet) for the packet the last compress returned.
CodecDecompress(i) ==
  /\ i \in DOMAIN codecs
  /\ IsCall("SemanticCodec.compress") /\ IsPacket(call.result)
  /\ call' = Called("SemanticCodec.decompress",
                    [codec |-> i, packet |-> call.result, data |-> call.arg.data],
                    SemanticCodec_decompress(codecs[i], call.result))
  /\ UNCHANGED <<GENERATORS, codecs, KNOWN_LSYSTEMS, data, container, again, other, wire, parsed,
                 out, outParsed, tamper, search, threads>>

NextCodec ==
  \/ NewCodec
  \/ RegisterGenerator("extra", "gen_powers_of_two")
  \/ \E i \in 1..MaxCodecs, r \in CodecRegistrations : Register(i, r[1], r[2])
  \/ \E i \in 1..MaxCodecs, blob \in CodecData, generator_id \in CodecGeneratorIds,
        seed \in CodecSeeds : CodecCompress(i, blob, generator_id, seed)
  \/ \E i \in 1..MaxCodecs : CodecDecompress(i)

SpecCodec == Init /\ [][NextCodec]_vars

\* C29: SemanticCodec.compress verifies the seed -- it returns a packet
\* only if generators[generator_id](seed) equals data, so that decompress
\* of every packet it returns equals data.
C29_CompressVerifiesSeed ==
  IsCall("SemanticCodec.compress") /\ IsPacket(call.result)
    => /\ JEq(CallGenerator(codecs[call.arg.codec][call.arg.generator_id], call.arg.seed),
              call.arg.data)
       /\ JEq(SemanticCodec_decompress(codecs[call.arg.codec], call.result), call.arg.data)

\* C30: codec registry isolation -- a new codec holds a snapshot of the
\* module-level GENERATORS table; a SemanticCodec.register call changes the
\* table of its own codec only, leaving the module-level table and the
\* table of every other codec as they were; compress and decompress change
\* no table, and raise ValueError for a generator_id absent from the
\* codec's own table.
C30_RegistryIsolation ==
  [][/\ call'.f = "SemanticCodec"
          => codecs' = Append(codecs, GENERATORS) /\ GENERATORS' = GENERATORS
     /\ call'.f = "SemanticCodec.register"
          => /\ GENERATORS' = GENERATORS
             /\ DOMAIN codecs' = DOMAIN codecs
             /\ \A j \in DOMAIN codecs : j # call'.arg.codec => codecs'[j] = codecs[j]
             /\ codecs'[call'.arg.codec] =
                  TablePut(codecs[call'.arg.codec], call'.arg.name, call'.arg.generator)
     /\ call'.f = "SemanticCodec.compress"
          => /\ GENERATORS' = GENERATORS /\ codecs' = codecs
             /\ call'.arg.generator_id \notin DOMAIN codecs[call'.arg.codec]
                  => IsRaise(call'.result) /\ call'.result.v = "ValueError"
     /\ call'.f = "SemanticCodec.decompress"
          => /\ GENERATORS' = GENERATORS /\ codecs' = codecs
             /\ call'.arg.packet.generator_id \notin DOMAIN codecs[call'.arg.codec]
                  => IsRaise(call'.result) /\ call'.result.v = "ValueError"
    ]_vars

\* Two codecs, the first with a generator registered under "custom": the
\* second, and the module, do not have it, and the second raises ValueError
\* for a packet of the first.
C30_Witness ==
  /\ Len(codecs) = 2
  /\ "custom" \in DOMAIN codecs[1]
  /\ "custom" \notin DOMAIN codecs[2]
  /\ "custom" \notin DOMAIN GENERATORS
  /\ IsCall("SemanticCodec.decompress")
  /\ call.arg.codec = 2
  /\ call.arg.packet.generator_id = "custom"
  /\ IsRaise(call.result) /\ call.result.v = "ValueError"

====
